---- MODULE Spec2Model ----
(***************************************************************************)
(* Model of mcp_sheet_parser/formula_processor.py: the formula calculator  *)
(* (FormulaCalculator), the reference parser (CellReference) and the       *)
(* driver (FormulaProcessor).                                              *)
(*                                                                         *)
(* A Python str is a sequence of one-character strings.  A Python value is *)
(* a record tagged by its type in field t:                                 *)
(*   none | bool(b) | int(n) | float(n, d) | str(s) | list(l) |            *)
(*   tuple (the empty tuple) | ellipsis                                    *)
(* A float is held as the exact fraction n/d in lowest terms, d > 0.       *)
(***************************************************************************)
EXTENDS Integers, Sequences, FiniteSets, TLC

VARIABLES
    sheet_data,     \* sheet_data['data']: the caller's grid, a sequence of rows
    formula,        \* the text handed to the last calculate_formula call
    info,           \* the FormulaInfo that call returned (NoInfo before it)
    stats,          \* FormulaProcessor.stats
    formula_cache,  \* FormulaProcessor.formula_cache: key <<row, col>> -> FormulaInfo
    path,           \* the branch of _evaluate_formula that produced its result
    calc_depth,     \* FormulaCalculator._recursion_depth of the calculator in use
    enhanced,       \* enhanced_data['formulas'] of the last pass (NoPass before it)
    passes,         \* number of process_sheet_formulas calls made
    returned,       \* what the last call of a query or of a function returned
    snapshot,       \* the dict get_formula_statistics handed out (NoSnapshot before)
    sheet_keys,     \* the keys of the caller's sheet_data mapping
    scan            \* where a pass followed step by step stands (NoScan otherwise)

vars ==
    <<sheet_data, formula, info, stats, formula_cache, path, calc_depth, enhanced, passes,
      returned, snapshot, sheet_keys, scan>>

(***************************************************************************)
(* Characters                                                              *)
(***************************************************************************)
Digits == {"0", "1", "2", "3", "4", "5", "6", "7", "8", "9"}
UpperLetters ==
    {"A", "B", "C", "D", "E", "F", "G", "H", "I", "J", "K", "L", "M",
     "N", "O", "P", "Q", "R", "S", "T", "U", "V", "W", "X", "Y", "Z"}
LowerLetters ==
    {"a", "b", "c", "d", "e", "f", "g", "h", "i", "j", "k", "l", "m",
     "n", "o", "p", "q", "r", "s", "t", "u", "v", "w", "x", "y", "z"}
Letters == UpperLetters \cup LowerLetters

\* str.upper() on one character
UpperPairs ==
    {<<"a", "A">>, <<"b", "B">>, <<"c", "C">>, <<"d", "D">>, <<"e", "E">>,
     <<"f", "F">>, <<"g", "G">>, <<"h", "H">>, <<"i", "I">>, <<"j", "J">>,
     <<"k", "K">>, <<"l", "L">>, <<"m", "M">>, <<"n", "N">>, <<"o", "O">>,
     <<"p", "P">>, <<"q", "Q">>, <<"r", "R">>, <<"s", "S">>, <<"t", "T">>,
     <<"u", "U">>, <<"v", "V">>, <<"w", "W">>, <<"x", "X">>, <<"y", "Y">>,
     <<"z", "Z">>}
UpperChar(c) ==
    IF c \in LowerLetters THEN (CHOOSE p \in UpperPairs : p[1] = c)[2] ELSE c
Upper(s) == [i \in 1..Len(s) |-> UpperChar(s[i])]

DigitPairs ==
    {<<"0", 0>>, <<"1", 1>>, <<"2", 2>>, <<"3", 3>>, <<"4", 4>>,
     <<"5", 5>>, <<"6", 6>>, <<"7", 7>>, <<"8", 8>>, <<"9", 9>>}
DigitVal(c) == (CHOOSE p \in DigitPairs : p[1] = c)[2]
DigitChar(n) == (CHOOSE p \in DigitPairs : p[2] = n)[1]

\* the operator characters of the regex class [\+\-\*/\^%]
OpChars == {"+", "-", "*", "/", "^", "%"}
\* the regex class [\d\s+\-*/().\^%]; the only whitespace of the model is " "
MathChars == Digits \cup OpChars \cup {" ", "(", ")", "."}

(***************************************************************************)
(* Strings                                                                 *)
(***************************************************************************)
\* s[i:] and s[:i] with 1-based i
From(s, i) == SubSeq(s, i, Len(s))
\* t occurs in s at position i
OccursAt(s, t, i) == i + Len(t) - 1 <= Len(s) /\ SubSeq(s, i, i + Len(t) - 1) = t
\* Python's  t in s
Contains(s, t) == \E i \in 1..(Len(s) + 1) : OccursAt(s, t, i)
StartsWith(s, t) == OccursAt(s, t, 1)
EndsWith(s, t) == Len(t) <= Len(s) /\ OccursAt(s, t, Len(s) - Len(t) + 1)

\* str.strip(), for the whitespace of the model
RECURSIVE LStrip(_)
LStrip(s) == IF s # <<>> /\ s[1] = " " THEN LStrip(Tail(s)) ELSE s
RECURSIVE RStrip(_)
RStrip(s) ==
    IF s # <<>> /\ s[Len(s)] = " " THEN RStrip(SubSeq(s, 1, Len(s) - 1)) ELSE s
Strip(s) == LStrip(RStrip(s))

\* the length of the longest run of characters of class cls that starts at s[i]
RECURSIVE RunLen(_, _, _)
RunLen(s, i, cls) ==
    IF i <= Len(s) /\ s[i] \in cls THEN 1 + RunLen(s, i + 1, cls) ELSE 0

\* int() of a non-empty run of decimal digits
RECURSIVE DigitsVal(_)
DigitsVal(ds) ==
    IF ds = <<>> THEN 0
    ELSE 10 * DigitsVal(SubSeq(ds, 1, Len(ds) - 1)) + DigitVal(ds[Len(ds)])

RECURSIVE Pow(_, _)
Pow(b, e) == IF e = 0 THEN 1 ELSE b * Pow(b, e - 1)

(***************************************************************************)
(* Python values                                                           *)
(***************************************************************************)
NoneV == [t |-> "none"]
BoolV(b) == [t |-> "bool", b |-> b]
IntV(n) == [t |-> "int", n |-> n]
StrV(s) == [t |-> "str", s |-> s]
EmptyTuple == [t |-> "tuple"]
EllipsisV == [t |-> "ellipsis"]
ListV(l) == [t |-> "list", l |-> l]

Abs(n) == IF n < 0 THEN -n ELSE n
RECURSIVE GCD(_, _)
GCD(a, b) == IF b = 0 THEN a ELSE GCD(b, a % b)
\* the float n/d, d # 0, in lowest terms with a positive denominator
FloatV(n, d) ==
    LET g == GCD(Abs(n), Abs(d))
        sg == IF d < 0 THEN -1 ELSE 1
    IN  [t |-> "float", n |-> (sg * n) \div g, d |-> Abs(d) \div g]

\* isinstance(v, (int, float)); bool is a subclass of int
IsNumber(v) == v.t \in {"int", "float", "bool"}
NumN(v) == IF v.t = "bool" THEN (IF v.b THEN 1 ELSE 0) ELSE v.n
NumD(v) == IF v.t = "float" THEN v.d ELSE 1
IsZero(v) == NumN(v) = 0

(***************************************************************************)
(* Python arithmetic on values.  The outcome of evaluating an expression   *)
(* is Val(v), Exc(e) for a raised exception e, Syn for a text that does    *)
(* not compile (SyntaxError), or Unsup for Python the model does not       *)
(* cover (no text of the specifications reaches it: see Modelled).         *)
(***************************************************************************)
Val(v) == [k |-> "val", v |-> v]
Exc(e) == [k |-> "exc", e |-> e]
Syn == [k |-> "syn"]
Unsup == [k |-> "unsup"]

\* the number n/d as an int when both operands are ints, as a float otherwise
NumResult(a, b, n, d) ==
    IF a.t = "float" \/ b.t = "float" THEN FloatV(n, d) ELSE IntV(n \div d)

\* floor(x / y) for numbers x, y with y # 0
FloorQuot(a, b) ==
    LET n == NumN(a) * NumD(b)
        d == NumD(a) * NumN(b)
    IN  IF d < 0 THEN (-n) \div (-d) ELSE n \div d

PyAdd(a, b) ==
    IF IsNumber(a) /\ IsNumber(b)
    THEN Val(NumResult(a, b, NumN(a) * NumD(b) + NumN(b) * NumD(a), NumD(a) * NumD(b)))
    ELSE IF a.t = "tuple" /\ b.t = "tuple" THEN Val(EmptyTuple)
    ELSE Exc("TypeError")

PySub(a, b) ==
    IF IsNumber(a) /\ IsNumber(b)
    THEN Val(NumResult(a, b, NumN(a) * NumD(b) - NumN(b) * NumD(a), NumD(a) * NumD(b)))
    ELSE Exc("TypeError")

PyMul(a, b) ==
    IF IsNumber(a) /\ IsNumber(b)
    THEN Val(NumResult(a, b, NumN(a) * NumN(b), NumD(a) * NumD(b)))
    ELSE IF \/ a.t = "tuple" /\ b.t \in {"int", "bool"}
            \/ b.t = "tuple" /\ a.t \in {"int", "bool"}
    THEN Val(EmptyTuple)
    ELSE Exc("TypeError")

\* true division: always a float
PyTrueDiv(a, b) ==
    IF ~(IsNumber(a) /\ IsNumber(b)) THEN Exc("TypeError")
    ELSE IF IsZero(b) THEN Exc("ZeroDivisionError")
    ELSE Val(FloatV(NumN(a) * NumD(b), NumD(a) * NumN(b)))

PyFloorDiv(a, b) ==
    IF ~(IsNumber(a) /\ IsNumber(b)) THEN Exc("TypeError")
    ELSE IF IsZero(b) THEN Exc("ZeroDivisionError")
    ELSE Val(NumResult(a, b, FloorQuot(a, b), 1))

\* a % b = a - b * floor(a / b): the sign of the result is the divisor's
PyMod(a, b) ==
    IF ~(IsNumber(a) /\ IsNumber(b)) THEN Exc("TypeError")
    ELSE IF IsZero(b) THEN Exc("ZeroDivisionError")
    ELSE LET q == FloorQuot(a, b)
         IN  Val(NumResult(a, b,
                 NumN(a) * NumD(b) - q * NumN(b) * NumD(a), NumD(a) * NumD(b)))

\* the largest exponent the model raises a number to
MaxExponent == 22

PyPow(a, b) ==
    IF ~(IsNumber(a) /\ IsNumber(b)) THEN Exc("TypeError")
    ELSE IF NumD(b) # 1 \/ Abs(NumN(b)) > MaxExponent THEN Unsup
    ELSE IF NumN(b) >= 0
    THEN Val(NumResult(a, b, Pow(NumN(a), NumN(b)), Pow(NumD(a), NumN(b))))
    ELSE IF IsZero(a) THEN Exc("ZeroDivisionError")
    ELSE Val(FloatV(Pow(NumD(a), -NumN(b)), Pow(NumN(a), -NumN(b))))

PyNeg(a) ==
    IF ~IsNumber(a) THEN Exc("TypeError")
    ELSE Val(IF a.t = "float" THEN FloatV(-a.n, a.d) ELSE IntV(-NumN(a)))

PyPos(a) ==
    IF ~IsNumber(a) THEN Exc("TypeError")
    ELSE Val(IF a.t = "float" THEN a ELSE IntV(NumN(a)))

\* a comparison; op is one of  <  >  <=  >=  ==  !=
PyCompare(op, a, b) ==
    IF IsNumber(a) /\ IsNumber(b)
    THEN LET l == NumN(a) * NumD(b)
             r == NumN(b) * NumD(a)
         IN  Val(BoolV(CASE op = "<" -> l < r
                         [] op = ">" -> l > r
                         [] op = "<=" -> l <= r
                         [] op = ">=" -> l >= r
                         [] op = "==" -> l = r
                         [] op = "!=" -> l # r))
    ELSE IF a.t = "tuple" /\ b.t = "tuple"
    THEN Val(BoolV(op \in {"<=", ">=", "=="}))
    ELSE IF op = "==" THEN Val(BoolV(a = b))
    ELSE IF op = "!=" THEN Val(BoolV(a # b))
    ELSE Exc("TypeError")

PyBinary(op, a, b) ==
    CASE op = "+" -> PyAdd(a, b)
      [] op = "-" -> PySub(a, b)
      [] op = "*" -> PyMul(a, b)
      [] op = "/" -> PyTrueDiv(a, b)
      [] op = "//" -> PyFloorDiv(a, b)
      [] op = "%" -> PyMod(a, b)
      [] op = "**" -> PyPow(a, b)

\* the outcome of  l op r  from the outcomes of its operands, the left one
\* evaluated first; a text that does not compile raises before anything runs
Combine(op, l, r) ==
    IF l.k = "unsup" \/ r.k = "unsup" THEN Unsup
    ELSE IF l.k = "syn" \/ r.k = "syn" THEN Syn
    ELSE IF l.k = "exc" THEN l
    ELSE IF r.k = "exc" THEN r
    ELSE PyBinary(op, l.v, r.v)

(***************************************************************************)
(* Python's tokenizer, for the characters of the model's texts.  A token   *)
(* is num(v), op(o), name, bad (a lexical error) or unsup.                 *)
(***************************************************************************)
NumTok(v) == [k |-> "num", v |-> v]
OpTok(o) == [k |-> "op", o |-> o]
NameTok == [k |-> "name"]
BadTok == [k |-> "bad"]
UnsupTok == [k |-> "unsup"]

NameChars == Letters \cup Digits \cup {"_"}
CharAt(s, i) == IF i >= 1 /\ i <= Len(s) THEN s[i] ELSE "<end>"

\* the token that starts at s[i] (not a space) and the position after it
TokenAt(s, i) ==
    LET c == s[i]
        nx == CharAt(s, i + 1)
    IN
    IF c \in Digits
    THEN LET n == RunLen(s, i, Digits)
             ds == SubSeq(s, i, i + n - 1)
             j == i + n
         IN  IF CharAt(s, j) = "."
             THEN \* digits "." digits?
                  LET m == RunLen(s, j + 1, Digits)
                      fr == SubSeq(s, j + 1, j + m)
                      e == j + 1 + m
                  IN  IF CharAt(s, e) \in Letters \cup {"_"}
                      THEN [tok |-> UnsupTok, p |-> e]
                      ELSE [tok |-> NumTok(FloatV(DigitsVal(ds) * Pow(10, m) + DigitsVal(fr),
                                                  Pow(10, m))),
                            p |-> e]
             ELSE IF CharAt(s, j) \in Letters \cup {"_"}
             THEN [tok |-> UnsupTok, p |-> j]
             ELSE \* a decimal integer has no leading zero, unless it is all zeros
                  IF ds[1] = "0" /\ \E x \in 1..n : ds[x] # "0"
                  THEN [tok |-> BadTok, p |-> j]
                  ELSE [tok |-> NumTok(IntV(DigitsVal(ds))), p |-> j]
    ELSE IF c = "."
    THEN IF nx \in Digits
         THEN LET m == RunLen(s, i + 1, Digits)
                  fr == SubSeq(s, i + 1, i + m)
                  e == i + 1 + m
              IN  IF CharAt(s, e) \in Letters \cup {"_"}
                  THEN [tok |-> UnsupTok, p |-> e]
                  ELSE [tok |-> NumTok(FloatV(DigitsVal(fr), Pow(10, m))), p |-> e]
         ELSE IF nx = "." /\ CharAt(s, i + 2) = "."
         THEN [tok |-> NumTok(EllipsisV), p |-> i + 3]
         ELSE IF \E x \in 1..Len(s) : s[x] \in Letters \cup {"_"}
         THEN [tok |-> UnsupTok, p |-> i + 1]     \* maybe an attribute reference
         ELSE [tok |-> BadTok, p |-> i + 1]
    ELSE IF c \in Letters \cup {"_"}
    THEN LET n == RunLen(s, i, NameChars)
         IN  \* a name in capitals is bound neither in the module nor in builtins
             IF \A x \in i..(i + n - 1) : s[x] \in UpperLetters \cup Digits
             THEN [tok |-> NameTok, p |-> i + n]
             ELSE [tok |-> UnsupTok, p |-> i + n]
    ELSE IF c \in {"(", ")", "+", "-", "%"} THEN [tok |-> OpTok(c), p |-> i + 1]
    ELSE IF c = "*"
    THEN IF nx = "*" THEN [tok |-> OpTok("**"), p |-> i + 2]
         ELSE [tok |-> OpTok("*"), p |-> i + 1]
    ELSE IF c = "/"
    THEN IF nx = "/" THEN [tok |-> OpTok("//"), p |-> i + 2]
         ELSE [tok |-> OpTok("/"), p |-> i + 1]
    ELSE IF c = "<"
    THEN IF nx = "=" THEN [tok |-> OpTok("<="), p |-> i + 2]
         ELSE IF nx = ">" THEN [tok |-> BadTok, p |-> i + 2]
         ELSE IF nx = "<" THEN [tok |-> UnsupTok, p |-> i + 2]
         ELSE [tok |-> OpTok("<"), p |-> i + 1]
    ELSE IF c = ">"
    THEN IF nx = "=" THEN [tok |-> OpTok(">="), p |-> i + 2]
         ELSE IF nx = ">" THEN [tok |-> UnsupTok, p |-> i + 2]
         ELSE [tok |-> OpTok(">"), p |-> i + 1]
    ELSE IF c = "="
    THEN IF nx = "=" THEN [tok |-> OpTok("=="), p |-> i + 2]
         ELSE [tok |-> BadTok, p |-> i + 1]
    ELSE IF c = "!"
    THEN IF nx = "=" THEN [tok |-> OpTok("!="), p |-> i + 2]
         ELSE [tok |-> BadTok, p |-> i + 1]
    ELSE IF c = ":"
    THEN \* outside brackets, braces and lambda a colon is an error unless it is ":="
         IF nx = "=" THEN [tok |-> UnsupTok, p |-> i + 2]
         ELSE [tok |-> BadTok, p |-> i + 1]
    ELSE [tok |-> UnsupTok, p |-> i + 1]

RECURSIVE Tokenize(_, _), TokensFrom(_, _)
Tokenize(s, i) ==
    IF i > Len(s) THEN <<>>
    ELSE IF s[i] = " " THEN Tokenize(s, i + 1)
    ELSE TokensFrom(s, TokenAt(s, i))
\* the token t and the tokens after it
TokensFrom(s, t) == <<t.tok>> \o Tokenize(s, t.p)

(***************************************************************************)
(* Python's expression grammar over the tokens: comparison, arith_expr,    *)
(* term, factor, power, primary, atom.  A rule returns the outcome r and   *)
(* the position p of the first token it did not use.                       *)
(***************************************************************************)
IsOp(ts, p, ops) == p <= Len(ts) /\ ts[p].k = "op" /\ ts[p].o \in ops
At(r, p) == [r |-> r, p |-> p]

UnaryOutcome(op, r) ==
    IF r.k # "val" THEN r ELSE IF op = "-" THEN PyNeg(r.v) ELSE PyPos(r.v)

\* calling the outcome l with the argument outcomes args: no value of the
\* model is callable
CallOutcome(l, arg) ==
    IF l.k = "unsup" \/ arg.k = "unsup" THEN Unsup
    ELSE IF l.k = "syn" \/ arg.k = "syn" THEN Syn
    ELSE IF l.k = "exc" THEN l
    ELSE IF arg.k = "exc" THEN arg
    ELSE Exc("TypeError")

NoCmp == [k |-> "nocmp"]
\* one more link  lhs op rhs  of a comparison chain whose links so far gave acc
CmpOutcome(op, lhs, rhs, acc) ==
    IF lhs.k = "unsup" \/ rhs.k = "unsup" \/ acc.k = "unsup" THEN Unsup
    ELSE IF lhs.k = "syn" \/ rhs.k = "syn" \/ acc.k = "syn" THEN Syn
    ELSE IF acc.k = "nocmp"
    THEN IF lhs.k = "exc" THEN lhs
         ELSE IF rhs.k = "exc" THEN rhs
         ELSE PyCompare(op, lhs.v, rhs.v)
    ELSE IF acc.k = "exc" THEN acc
    ELSE IF acc.v = BoolV(FALSE) THEN acc    \* short circuit: rhs is not evaluated
    ELSE IF rhs.k = "exc" THEN rhs
    ELSE PyCompare(op, lhs.v, rhs.v)

\* One operator for the whole grammar; rule names the production:
\*   "comparison"  arith_expr (comp_op arith_expr)*
\*   "arith_expr"  term (("+" | "-") term)*
\*   "term"        factor (("*" | "/" | "//" | "%") factor)*
\*   "factor"      ("+" | "-") factor | power
\*   "power"       primary ["**" factor]
\*   "primary"     atom ("(" [argument] ")")*
\*   "atom"        NUMBER | NAME | "(" [comparison] ")"
\* and the "..._rest" rules continue a production from position p with the
\* outcome l of its left operand (acc: the links of a comparison chain so far).
RECURSIVE Parse(_, _, _, _, _)
Parse(rule, ts, p, l, acc) ==
    CASE rule = "comparison" ->
            LET a == Parse("arith_expr", ts, p, NoCmp, NoCmp)
            IN  Parse("comparison_rest", ts, a.p, a.r, NoCmp)
      [] rule = "comparison_rest" ->
            IF l.k = "syn" THEN At(Syn, p)
            ELSE IF IsOp(ts, p, {"<", ">", "<=", ">=", "==", "!="})
            THEN LET b == Parse("arith_expr", ts, p + 1, NoCmp, NoCmp)
                 IN  Parse("comparison_rest", ts, b.p, b.r, CmpOutcome(ts[p].o, l, b.r, acc))
            ELSE At(IF acc.k = "nocmp" THEN l ELSE acc, p)
      [] rule = "arith_expr" ->
            LET a == Parse("term", ts, p, NoCmp, NoCmp)
            IN  Parse("arith_rest", ts, a.p, a.r, NoCmp)
      [] rule = "arith_rest" ->
            IF l.k = "syn" THEN At(Syn, p)
            ELSE IF IsOp(ts, p, {"+", "-"})
            THEN LET b == Parse("term", ts, p + 1, NoCmp, NoCmp)
                 IN  Parse("arith_rest", ts, b.p, Combine(ts[p].o, l, b.r), NoCmp)
            ELSE At(l, p)
      [] rule = "term" ->
            LET a == Parse("factor", ts, p, NoCmp, NoCmp)
            IN  Parse("term_rest", ts, a.p, a.r, NoCmp)
      [] rule = "term_rest" ->
            IF l.k = "syn" THEN At(Syn, p)
            ELSE IF IsOp(ts, p, {"*", "/", "//", "%"})
            THEN LET b == Parse("factor", ts, p + 1, NoCmp, NoCmp)
                 IN  Parse("term_rest", ts, b.p, Combine(ts[p].o, l, b.r), NoCmp)
            ELSE At(l, p)
      [] rule = "factor" ->
            IF IsOp(ts, p, {"+", "-"})
            THEN LET f == Parse("factor", ts, p + 1, NoCmp, NoCmp)
                 IN  At(UnaryOutcome(ts[p].o, f.r), f.p)
            ELSE Parse("power", ts, p, NoCmp, NoCmp)
      [] rule = "power" ->
            LET a == Parse("primary", ts, p, NoCmp, NoCmp)
            IN  IF a.r.k # "syn" /\ IsOp(ts, a.p, {"**"})
                THEN LET f == Parse("factor", ts, a.p + 1, NoCmp, NoCmp)
                     IN  At(Combine("**", a.r, f.r), f.p)
                ELSE a
      [] rule = "primary" ->
            LET a == Parse("atom", ts, p, NoCmp, NoCmp)
            IN  Parse("primary_rest", ts, a.p, a.r, NoCmp)
      [] rule = "primary_rest" ->
            IF l.k = "syn" THEN At(Syn, p)
            ELSE IF IsOp(ts, p, {"("})
            THEN IF IsOp(ts, p + 1, {")"})
                 THEN Parse("primary_rest", ts, p + 2, CallOutcome(l, Val(NoneV)), NoCmp)
                 ELSE \* one argument, maybe unpacked with * or **
                      LET q == IF IsOp(ts, p + 1, {"*", "**"}) THEN p + 2 ELSE p + 1
                          e == Parse("comparison", ts, q, NoCmp, NoCmp)
                      IN  IF e.r.k # "syn" /\ IsOp(ts, e.p, {")"})
                          THEN Parse("primary_rest", ts, e.p + 1, CallOutcome(l, e.r), NoCmp)
                          ELSE At(Syn, p)
            ELSE At(l, p)
      [] rule = "atom" ->
            IF p > Len(ts) THEN At(Syn, p)
            ELSE IF ts[p].k = "num" THEN At(Val(ts[p].v), p + 1)
            ELSE IF ts[p].k = "name" THEN At(Exc("NameError"), p + 1)
            ELSE IF IsOp(ts, p, {"("})
            THEN IF IsOp(ts, p + 1, {")"})
                 THEN At(Val(EmptyTuple), p + 2)
                 ELSE LET e == Parse("comparison", ts, p + 1, NoCmp, NoCmp)
                      IN  IF e.r.k # "syn" /\ IsOp(ts, e.p, {")"})
                          THEN At(e.r, e.p + 1)
                          ELSE At(Syn, p)
            ELSE At(Syn, p)

\* an expression x parsed from the tokens is the text when no token is left
WholeText(ts, x) == IF x.r.k = "syn" \/ x.p # Len(ts) + 1 THEN Syn ELSE x.r

\* the outcome of the token sequence as one expression
ParseAll(ts) ==
    IF \E i \in 1..Len(ts) : ts[i].k = "unsup" THEN Unsup
    ELSE IF ts = <<>> \/ \E i \in 1..Len(ts) : ts[i].k = "bad" THEN Syn
    ELSE WholeText(ts, Parse("comparison", ts, 1, NoCmp, NoCmp))

\* eval(s): leading blanks are stripped before the text is compiled
PyEval(s) == ParseAll(Tokenize(s, 1))

\* compile(s, '<string>', 'eval') followed by eval(s): compile does not strip,
\* a text that starts with a blank is an IndentationError
PyCompileEval(s) == IF s # <<>> /\ s[1] = " " THEN Syn ELSE PyEval(s)

(***************************************************************************)
(* int(str) and float(str), for the characters of the model's cell texts   *)
(* (no underscores, no exponent forms, no inf/nan).  The result is Val(v)  *)
(* or Exc("ValueError").                                                   *)
(***************************************************************************)
Unsigned(u) == IF u # <<>> /\ u[1] \in {"+", "-"} THEN Tail(u) ELSE u
SignOf(u) == IF u # <<>> /\ u[1] = "-" THEN -1 ELSE 1
AllDigits(b) == \A i \in 1..Len(b) : b[i] \in Digits

PyInt(s) ==
    LET u == Strip(s)
        b == Unsigned(u)
    IN  IF b # <<>> /\ AllDigits(b) THEN Val(IntV(SignOf(u) * DigitsVal(b)))
        ELSE Exc("ValueError")

PyFloat(s) ==
    LET u == Strip(s)
        b == Unsigned(u)
        n == RunLen(b, 1, Digits)
    IN  IF b # <<>> /\ AllDigits(b)
        THEN Val(FloatV(SignOf(u) * DigitsVal(b), 1))
        ELSE IF n < Len(b) /\ b[n + 1] = "."
        THEN LET fr == From(b, n + 2)
             IN  IF AllDigits(fr) /\ n + Len(fr) > 0
                 THEN Val(FloatV(SignOf(u) * (DigitsVal(SubSeq(b, 1, n)) * Pow(10, Len(fr))
                                              + DigitsVal(fr)),
                                 Pow(10, Len(fr))))
                 ELSE Exc("ValueError")
        ELSE Exc("ValueError")

\* float(s) if '.' in s else int(s)
ParseNumber(s) == IF Contains(s, <<".">>) THEN PyFloat(s) ELSE PyInt(s)

(***************************************************************************)
(* class CellReference                                                     *)
(***************************************************************************)
Alphabet ==
    <<"A", "B", "C", "D", "E", "F", "G", "H", "I", "J", "K", "L", "M",
      "N", "O", "P", "Q", "R", "S", "T", "U", "V", "W", "X", "Y", "Z">>
\* ord(char) - ord('A') + 1
LetterOrd(c) == CHOOSE i \in 1..Len(Alphabet) : Alphabet[i] = c

RECURSIVE LettersValue(_)
LettersValue(letters) ==
    IF letters = <<>> THEN 0
    ELSE LettersValue(SubSeq(letters, 1, Len(letters) - 1)) * 26
         + LetterOrd(letters[Len(letters)])
\* variant: only the last letter counts
_letters_to_col_LastLetter(letters) == LetterOrd(Upper(letters)[Len(letters)]) - 1
_letters_to_col(letters) == LettersValue(Upper(letters)) - 1

\* \$?([A-Z]+)\$?(\d+) matched at s[i]: the letters, the digits, and the
\* position after the match
MatchCellAt(s, i) ==
    LET a == IF CharAt(s, i) = "$" THEN i + 1 ELSE i
        nl == RunLen(s, a, Letters)
        b == IF CharAt(s, a + nl) = "$" THEN a + nl + 1 ELSE a + nl
        nd == RunLen(s, b, Digits)
    IN  [ok |-> nl > 0 /\ nd > 0,
         letters |-> SubSeq(s, a, a + nl - 1),
         digits |-> SubSeq(s, b, b + nd - 1),
         p |-> b + nd]

\* the position after the optional prefix ([^!]+)! when s has one, else 0
SheetEnd(s) ==
    IF \E i \in 2..Len(s) : s[i] = "!"
    THEN CHOOSE i \in 2..Len(s) : s[i] = "!" /\ \A j \in 1..(i - 1) : s[j] # "!"
    ELSE 0
SheetPrefixOk(s) == s # <<>> /\ s[1] # "!" /\ SheetEnd(s) > 0

NoSheet == <<>>
CellFailure == [sheet |-> NoSheet, row |-> -1, col |-> -1]

\* cell_pattern.match: with the sheet prefix when the rest matches after it,
\* else without it from the start of the text
CellOf(s, q, m) ==
    IF q.ok
    THEN [sheet |-> SubSeq(s, 1, SheetEnd(s) - 1),
          row |-> DigitsVal(q.digits) - 1, col |-> _letters_to_col(q.letters)]
    ELSE IF m.ok
    THEN [sheet |-> NoSheet,
          row |-> DigitsVal(m.digits) - 1, col |-> _letters_to_col(m.letters)]
    ELSE CellFailure
MatchCell(s) ==
    CellOf(s, IF SheetPrefixOk(s) THEN MatchCellAt(s, SheetEnd(s) + 1) ELSE [ok |-> FALSE],
           MatchCellAt(s, 1))
parse_cell_reference(ref) == MatchCell(Strip(ref))

RangeFailure ==
    [sheet |-> NoSheet, start_row |-> -1, start_col |-> -1, end_row |-> -1, end_col |-> -1]

\* cell ":" cell matched at s[i]
RangeEnds(a, b) ==
    IF b.ok
    THEN [ok |-> TRUE,
          start_row |-> DigitsVal(a.digits) - 1, start_col |-> _letters_to_col(a.letters),
          end_row |-> DigitsVal(b.digits) - 1, end_col |-> _letters_to_col(b.letters)]
    ELSE [ok |-> FALSE]
RangeFrom(s, a) ==
    RangeEnds(a, IF a.ok /\ CharAt(s, a.p) = ":" THEN MatchCellAt(s, a.p + 1) ELSE [ok |-> FALSE])
MatchRangeAt(s, i) == RangeFrom(s, MatchCellAt(s, i))

RangeOf(s, q, m) ==
    IF q.ok
    THEN [sheet |-> SubSeq(s, 1, SheetEnd(s) - 1), start_row |-> q.start_row,
          start_col |-> q.start_col, end_row |-> q.end_row, end_col |-> q.end_col]
    ELSE IF m.ok
    THEN [sheet |-> NoSheet, start_row |-> m.start_row,
          start_col |-> m.start_col, end_row |-> m.end_row, end_col |-> m.end_col]
    ELSE RangeFailure
MatchRange(s) ==
    RangeOf(s, IF SheetPrefixOk(s) THEN MatchRangeAt(s, SheetEnd(s) + 1) ELSE [ok |-> FALSE],
            MatchRangeAt(s, 1))
parse_range_reference(ref) == MatchRange(Strip(ref))

(***************************************************************************)
(* str(value), bool(value), int(value)                                     *)
(***************************************************************************)
RECURSIVE NatStr(_)
NatStr(n) == IF n < 10 THEN <<DigitChar(n)>> ELSE NatStr(n \div 10) \o <<DigitChar(n % 10)>>
IntStr(n) == IF n < 0 THEN <<"-">> \o NatStr(-n) ELSE NatStr(n)

\* d divides a power of ten: the float n/d has a finite decimal expansion
RECURSIVE Strip2and5(_)
Strip2and5(d) ==
    IF d % 2 = 0 THEN Strip2and5(d \div 2)
    ELSE IF d % 5 = 0 THEN Strip2and5(d \div 5) ELSE d
\* the digits of the fraction r/d, 0 <= r < d, after the decimal point
RECURSIVE FracDigits(_, _)
FracDigits(r, d) ==
    IF r = 0 THEN <<>>
    ELSE <<DigitChar((10 * r) \div d)>> \o FracDigits((10 * r) % d, d)
\* repr of a float of moderate size with a finite expansion; "?" stands for
\* the digits of any other float
FloatStr(v) ==
    IF Strip2and5(v.d) # 1 THEN <<"?">>
    ELSE LET a == Abs(v.n)
             fr == FracDigits(a % v.d, v.d)
         IN  (IF v.n < 0 THEN <<"-">> ELSE <<>>) \o NatStr(a \div v.d) \o <<".">>
             \o (IF fr = <<>> THEN <<"0">> ELSE fr)

RECURSIVE JoinStr(_, _)
JoinStr(strs, sep) ==
    IF strs = <<>> THEN <<>>
    ELSE IF Len(strs) = 1 THEN strs[1]
    ELSE strs[1] \o sep \o JoinStr(Tail(strs), sep)

RECURSIVE PyStr(_)
PyStr(v) ==
    CASE v.t = "int" -> IntStr(v.n)
      [] v.t = "float" -> FloatStr(v)
      [] v.t = "bool" -> IF v.b THEN <<"T", "r", "u", "e">> ELSE <<"F", "a", "l", "s", "e">>
      [] v.t = "str" -> v.s
      [] v.t = "none" -> <<"N", "o", "n", "e">>
      [] v.t = "tuple" -> <<"(", ")">>
      [] v.t = "ellipsis" -> <<"E", "l", "l", "i", "p", "s", "i", "s">>
      [] v.t = "list" ->
            \* the elements of a list of the model are numbers: repr is str
            <<"[">> \o JoinStr([i \in 1..Len(v.l) |-> PyStr(v.l[i])], <<",", " ">>) \o <<"]">>
      [] OTHER -> <<"?">>

\* truth value
Truthy(v) ==
    CASE v.t \in {"int", "float", "bool"} -> ~IsZero(v)
      [] v.t = "str" -> v.s # <<>>
      [] v.t = "list" -> v.l # <<>>
      [] v.t \in {"none", "tuple"} -> FALSE
      [] OTHER -> TRUE

\* truncation toward zero
Trunc(n, d) == IF n < 0 THEN -((-n) \div d) ELSE n \div d
\* int(v)
PyIntOf(v) ==
    CASE v.t \in {"int", "float", "bool"} -> Val(IntV(Trunc(NumN(v), NumD(v))))
      [] v.t = "str" -> PyInt(v.s)
      [] OTHER -> Exc("TypeError")

\* an index of a slice of a sequence of length n, clamped as Python does
SliceIndex(i, n) ==
    IF i < 0 THEN (IF i + n < 0 THEN 0 ELSE i + n)
    ELSE IF i > n THEN n ELSE i
\* s[a:b], s[a:] and s[:b]
PySlice(s, a, b) == SubSeq(s, SliceIndex(a, Len(s)) + 1, SliceIndex(b, Len(s)))
PySliceFrom(s, a) == SubSeq(s, SliceIndex(a, Len(s)) + 1, Len(s))
PySliceTo(s, b) == SubSeq(s, 1, SliceIndex(b, Len(s)))

LowerChar(c) ==
    IF c \in UpperLetters THEN (CHOOSE p \in UpperPairs : p[2] = c)[1] ELSE c
Lower(s) == [i \in 1..Len(s) |-> LowerChar(s[i])]

(***************************************************************************)
(* enum FormulaError, enum FormulaType                                     *)
(***************************************************************************)
FormulaErrors ==
    {"REF_ERROR", "DIV_ZERO", "VALUE_ERROR", "NAME_ERROR", "NUM_ERROR", "NA_ERROR",
     "NULL_ERROR"}
\* FormulaError.value
ErrorText(e) ==
    CASE e = "REF_ERROR" -> <<"#", "R", "E", "F", "!">>
      [] e = "DIV_ZERO" -> <<"#", "D", "I", "V", "/", "0", "!">>
      [] e = "VALUE_ERROR" -> <<"#", "V", "A", "L", "U", "E", "!">>
      [] e = "NAME_ERROR" -> <<"#", "N", "A", "M", "E", "?">>
      [] e = "NUM_ERROR" -> <<"#", "N", "U", "M", "!">>
      [] e = "NA_ERROR" -> <<"#", "N", "/", "A">>
      [] e = "NULL_ERROR" -> <<"#", "N", "U", "L", "L", "!">>
NoError == "None"
FormulaTypes ==
    {"SIMPLE_MATH", "FUNCTION", "REFERENCE", "ARRAY", "CONDITIONAL", "COMPLEX"}
\* a FormulaError returned by a builtin in place of a value
ErrV(e) == [t |-> "error", e |-> e]

(***************************************************************************)
(* The builtins of FormulaCalculator.  args is the list of argument values;*)
(* the result is a value or ErrV(e).  Each body runs inside  try ...       *)
(* except Exception: return VALUE_ERROR.                                   *)
(***************************************************************************)
\* [v for v in l if isinstance(v, (int, float))]
Numbers(l) == SelectSeq(l, IsNumber)
\* the numeric values an aggregate sees: the numbers of list arguments and
\* the arguments that are numbers themselves, in order
RECURSIVE AggregateValues(_)
AggregateValues(args) ==
    IF args = <<>> THEN <<>>
    ELSE (IF args[1].t = "list" THEN Numbers(args[1].l)
          ELSE IF IsNumber(args[1]) THEN <<args[1]>> ELSE <<>>)
         \o AggregateValues(Tail(args))

\* sum(values), starting from the int 0
RECURSIVE SumValues(_)
SumValues(vals) ==
    IF vals = <<>> THEN IntV(0)
    ELSE PyAdd(SumValues(SubSeq(vals, 1, Len(vals) - 1)), vals[Len(vals)]).v

NumLess(a, b) == NumN(a) * NumD(b) < NumN(b) * NumD(a)
\* max(values) and min(values): the first of the largest (smallest) elements
RECURSIVE MaxValue(_)
MaxValue(vals) ==
    IF Len(vals) = 1 THEN vals[1]
    ELSE LET m == MaxValue(SubSeq(vals, 1, Len(vals) - 1))
         IN  IF NumLess(m, vals[Len(vals)]) THEN vals[Len(vals)] ELSE m
RECURSIVE MinValue(_)
MinValue(vals) ==
    IF Len(vals) = 1 THEN vals[1]
    ELSE LET m == MinValue(SubSeq(vals, 1, Len(vals) - 1))
         IN  IF NumLess(vals[Len(vals)], m) THEN vals[Len(vals)] ELSE m

_function_sum(args) == SumValues(AggregateValues(args))

_function_average(args) ==
    LET values == AggregateValues(args)
    IN  IF values # <<>> THEN PyTrueDiv(SumValues(values), IntV(Len(values))).v
        ELSE IntV(0)

_function_count(args) == IntV(Len(AggregateValues(args)))

\* v is not None and v != ""
NonEmpty(v) == v # NoneV /\ v # StrV(<<>>)
RECURSIVE CountA(_)
CountA(args) ==
    IF args = <<>> THEN 0
    ELSE (IF args[1].t = "list" THEN Len(SelectSeq(args[1].l, NonEmpty))
          ELSE IF NonEmpty(args[1]) THEN 1 ELSE 0)
         + CountA(Tail(args))
_function_counta(args) == IntV(CountA(args))

_function_max(args) ==
    LET values == AggregateValues(args)
    IN  IF values # <<>> THEN MaxValue(values) ELSE IntV(0)

_function_min(args) ==
    LET values == AggregateValues(args)
    IN  IF values # <<>> THEN MinValue(values) ELSE IntV(0)

_function_abs(args) ==
    IF Len(args) # 1 THEN ErrV("VALUE_ERROR")
    ELSE IF IsNumber(args[1])
    THEN (IF NumN(args[1]) < 0 THEN PyNeg(args[1]).v ELSE PyPos(args[1]).v)
    ELSE ErrV("VALUE_ERROR")

\* round(value, ndigits) to the nearest multiple of 10^-ndigits, ties to even
RoundHalfEven(n, d) ==
    LET q == n \div d
        r2 == 2 * (n % d)
    IN  IF r2 < d THEN q ELSE IF r2 > d THEN q + 1 ELSE IF q % 2 = 0 THEN q ELSE q + 1
PyRound(v, nd) ==
    LET sn == IF nd >= 0 THEN NumN(v) * Pow(10, nd) ELSE NumN(v)
        sd == IF nd >= 0 THEN NumD(v) ELSE NumD(v) * Pow(10, -nd)
        q == RoundHalfEven(sn, sd)
    IN  IF v.t = "float"
        THEN (IF nd >= 0 THEN FloatV(q, Pow(10, nd)) ELSE FloatV(q * Pow(10, -nd), 1))
        ELSE (IF nd >= 0 THEN IntV(NumN(v)) ELSE IntV(q * Pow(10, -nd)))

_function_round(args) ==
    IF Len(args) < 1 \/ Len(args) > 2 THEN ErrV("VALUE_ERROR")
    ELSE LET value == args[1]
             digits == IF Len(args) > 1 THEN args[2] ELSE IntV(0)
         IN  IF IsNumber(value) /\ IsNumber(digits)
             THEN LET nd == Trunc(NumN(digits), NumD(digits))
                  IN  IF Abs(nd) > MaxExponent THEN ErrV("UNSUPPORTED")
                      ELSE PyRound(value, nd)
             ELSE ErrV("VALUE_ERROR")

_function_int(args) ==
    IF Len(args) # 1 THEN ErrV("VALUE_ERROR")
    ELSE IF IsNumber(args[1]) THEN PyIntOf(args[1]).v
    ELSE ErrV("VALUE_ERROR")

\* math.sqrt(v), v >= 0: the float root when v is the square of a fraction,
\* else the float written surd(v)
IsSquare(n) == \E r \in 0..n : r * r = n
Root(n) == CHOOSE r \in 0..n : r * r = n
PySqrt(v) ==
    LET f == FloatV(NumN(v), NumD(v))
    IN  IF IsSquare(f.n) /\ IsSquare(f.d) THEN FloatV(Root(f.n), Root(f.d))
        ELSE [t |-> "surd", of |-> f]

_function_sqrt(args) ==
    IF Len(args) # 1 THEN ErrV("VALUE_ERROR")
    ELSE IF IsNumber(args[1])
    THEN (IF NumN(args[1]) < 0 THEN ErrV("NUM_ERROR") ELSE PySqrt(args[1]))
    ELSE ErrV("VALUE_ERROR")

_function_power(args) ==
    IF Len(args) # 2 THEN ErrV("VALUE_ERROR")
    ELSE IF IsNumber(args[1]) /\ IsNumber(args[2])
    THEN LET r == PyPow(args[1], args[2])
         IN  IF r.k = "val" THEN r.v
             ELSE IF r.k = "exc" THEN ErrV("VALUE_ERROR")
             ELSE ErrV("UNSUPPORTED")
    ELSE ErrV("VALUE_ERROR")

_function_if(args) ==
    IF Len(args) < 2 \/ Len(args) > 3 THEN ErrV("VALUE_ERROR")
    ELSE LET condition == args[1]
             true_value == args[2]
             false_value == IF Len(args) > 2 THEN args[3] ELSE BoolV(FALSE)
         IN  IF Truthy(condition) THEN true_value ELSE false_value

_function_and(args) == BoolV(\A i \in 1..Len(args) : Truthy(args[i]))
_function_or(args) == BoolV(\E i \in 1..Len(args) : Truthy(args[i]))

_function_not(args) ==
    IF Len(args) # 1 THEN ErrV("VALUE_ERROR") ELSE BoolV(~Truthy(args[1]))

_function_len(args) ==
    IF Len(args) # 1 THEN ErrV("VALUE_ERROR") ELSE IntV(Len(PyStr(args[1])))

_function_left(args) ==
    IF Len(args) < 1 \/ Len(args) > 2 THEN ErrV("VALUE_ERROR")
    ELSE LET text == PyStr(args[1])
             num_chars == IF Len(args) > 1 THEN PyIntOf(args[2]) ELSE Val(IntV(1))
         IN  IF num_chars.k = "exc" THEN ErrV("VALUE_ERROR")
             ELSE StrV(PySliceTo(text, num_chars.v.n))

_function_right(args) ==
    IF Len(args) < 1 \/ Len(args) > 2 THEN ErrV("VALUE_ERROR")
    ELSE LET text == PyStr(args[1])
             num_chars == IF Len(args) > 1 THEN PyIntOf(args[2]) ELSE Val(IntV(1))
         IN  IF num_chars.k = "exc" THEN ErrV("VALUE_ERROR")
             ELSE StrV(PySliceFrom(text, -num_chars.v.n))

_function_mid(args) ==
    IF Len(args) # 3 THEN ErrV("VALUE_ERROR")
    ELSE LET text == PyStr(args[1])
             s1 == PyIntOf(args[2])
             l1 == PyIntOf(args[3])
         IN  IF s1.k = "exc" \/ l1.k = "exc" THEN ErrV("VALUE_ERROR")
             ELSE LET start == s1.v.n - 1
                  IN  StrV(PySlice(text, start, start + l1.v.n))

_function_upper(args) ==
    IF Len(args) # 1 THEN ErrV("VALUE_ERROR") ELSE StrV(Upper(PyStr(args[1])))
_function_lower(args) ==
    IF Len(args) # 1 THEN ErrV("VALUE_ERROR") ELSE StrV(Lower(PyStr(args[1])))

_function_concatenate(args) ==
    StrV(JoinStr([i \in 1..Len(args) |-> PyStr(args[i])], <<>>))

(***************************************************************************)
(* class FormulaCalculator.  data is sheet_data['data']: a sequence of     *)
(* rows, each a sequence of cell values (none, int, float or str), indexed *)
(* from 0 in the code and from 1 here.  depth is self._recursion_depth,    *)
(* Unset until _resolve_range_reference creates the attribute.             *)
(***************************************************************************)
Unset == -1
\* the limit of  if self._recursion_depth > 10
RecursionLimit == 10
\* an evaluation the model does not cover (see Unsup)
UnsupV == [t |-> "unsup"]

\* re.match(r'^[A-Z]+\d+$', text, re.IGNORECASE)
IsCellToken(text) ==
    LET nl == RunLen(text, 1, Letters)
        nd == RunLen(text, nl + 1, Digits)
    IN  nl > 0 /\ nd > 0 /\ nl + nd = Len(text)

\* re.match(r'^[\d\s+\-*/().\^%]+$', text)
IsSimpleMath(text) == text # <<>> /\ \A i \in 1..Len(text) : text[i] \in MathChars

\* re.search(r'[A-Z]+\s*\(', text, re.IGNORECASE): some "(" is preceded by a
\* letter, blanks between them allowed
LastNonBlankBefore(text, j) ==
    IF \E k \in 1..(j - 1) : text[k] # " "
    THEN CHOOSE k \in 1..(j - 1) : text[k] # " " /\ \A x \in (k + 1)..(j - 1) : text[x] = " "
    ELSE 0
HasFunctionCall(text) ==
    \E j \in 1..Len(text) :
        /\ text[j] = "("
        /\ LastNonBlankBefore(text, j) > 0
        /\ text[LastNonBlankBefore(text, j)] \in Letters

\* formula.replace('^', '**')
RECURSIVE ReplaceCaret(_)
ReplaceCaret(text) ==
    IF text = <<>> THEN <<>>
    ELSE (IF text[1] = "^" THEN <<"*", "*">> ELSE <<text[1]>>) \o ReplaceCaret(Tail(text))

Result(value, error) == [value |-> value, error |-> error]
ErrorResult(e) == Result(StrV(ErrorText(e)), e)

\* float(value) if '.' in value else int(value), or the text itself
NumberOrText(n, value) == IF n.k = "val" THEN n.v ELSE value
\* variant: a cell that holds a formula is read as the value of its text
EvaluatedOr(r, value) == IF r.k = "val" THEN r.v ELSE value
CellValue_Evaluated(value) ==
    IF value.t \in {"int", "float"} THEN value
    ELSE IF value.t = "str"
    THEN IF StartsWith(value.s, <<"=">>) THEN EvaluatedOr(PyEval(Tail(value.s)), value)
         ELSE NumberOrText(ParseNumber(value.s), value)
    ELSE IF Truthy(value) THEN value ELSE IntV(0)
\* the coercion of a cell's raw value by _resolve_cell_reference
CellValue(value) ==
    IF value.t \in {"int", "float"} THEN value
    ELSE IF value.t = "str" THEN NumberOrText(ParseNumber(value.s), value)
    ELSE IF Truthy(value) THEN value ELSE IntV(0)       \* value or 0

\* the value and error of the parsed reference c
ResolveCell(c, data) ==
    IF c.row = -1 \/ c.col = -1 THEN ErrorResult("REF_ERROR")
    ELSE IF c.row >= Len(data) \/ c.col >= Len(data[c.row + 1])
    THEN Result(IntV(0), NoError)
    ELSE Result(CellValue(data[c.row + 1][c.col + 1]), NoError)
_resolve_cell_reference(ref, data) == ResolveCell(parse_cell_reference(ref), data)

\* replace_cell_ref of _substitute_references
Replacement(r) == IF r.error = NoError /\ IsNumber(r.value) THEN PyStr(r.value) ELSE <<"0">>
ReplaceCellRef(ref, data) == Replacement(_resolve_cell_reference(ref, data))

\* re.sub(r'[A-Z]+\d+', replace_cell_ref, text) from position i: a match is a
\* whole run of letters and all the digits that follow it
RECURSIVE SubstituteFrom(_, _, _)
SubstituteFrom(text, i, data) ==
    IF i > Len(text) THEN <<>>
    ELSE LET nl == RunLen(text, i, Letters)
             nd == RunLen(text, i + nl, Digits)
         IN  IF nl > 0 /\ nd > 0
             THEN ReplaceCellRef(SubSeq(text, i, i + nl + nd - 1), data)
                  \o SubstituteFrom(text, i + nl + nd, data)
             ELSE IF nl > 0
             THEN SubSeq(text, i, i + nl - 1) \o SubstituteFrom(text, i + nl, data)
             ELSE <<text[i]>> \o SubstituteFrom(text, i + 1, data)

_substitute_references(text, data) == ReplaceCaret(SubstituteFrom(text, 1, data))

\* what the loop of _resolve_range_reference appends for a formula cell whose
\* substituted text evaluates to r, and for a text cell that parses to n
FormulaCellValues(r) ==
    IF r.k = "unsup" THEN <<UnsupV>>
    ELSE IF r.k = "val" /\ IsNumber(r.v) THEN <<r.v>>
    ELSE <<>>
\* variant: a text that is no number counts as 0
TextCellValues_TextAsZero(n) == IF n.k = "val" THEN <<n.v>> ELSE <<IntV(0)>>
TextCellValues(n) == IF n.k = "val" THEN <<n.v>> ELSE <<>>

\* a formula cell whose substituted text evaluates to r, when the except
\* branch does not decrement
FormulaCellNoUndo(r, depth) ==
    [values |-> FormulaCellValues(r),
     depth |-> IF r.k = "val" THEN (depth + 1) - 1 ELSE depth + 1]
\* the loop body without the decrement of the except branch
RangeCell_NoUndoOnFailure(value, data, depth) ==
    IF value.t \in {"int", "float"} THEN [values |-> <<value>>, depth |-> depth]
    ELSE IF value.t = "str"
    THEN IF StartsWith(value.s, <<"=">>)
         THEN FormulaCellNoUndo(PyEval(_substitute_references(Tail(value.s), data)), depth)
         ELSE [values |-> TextCellValues(ParseNumber(value.s)), depth |-> depth]
    ELSE [values |-> <<>>, depth |-> depth]

\* the body of the loop of _resolve_range_reference for one cell: the values
\* it appends and the depth it leaves
RangeCell(value, data, depth) ==
    IF value.t \in {"int", "float"} THEN [values |-> <<value>>, depth |-> depth]
    ELSE IF value.t = "str"
    THEN IF StartsWith(value.s, <<"=">>)
         THEN \* depth + 1 before, depth - 1 after on both paths
              [values |-> FormulaCellValues(PyEval(_substitute_references(Tail(value.s), data))),
               depth |-> (depth + 1) - 1]
         ELSE [values |-> TextCellValues(ParseNumber(value.s)), depth |-> depth]
    ELSE [values |-> <<>>, depth |-> depth]

\* the cells (row, col), 0-based, of the two nested loops, in their order
RECURSIVE RowCells(_, _, _)
RowCells(row, col, col_end) ==
    IF col >= col_end THEN <<>> ELSE <<<<row, col>>>> \o RowCells(row, col + 1, col_end)
Min(a, b) == IF a < b THEN a ELSE b
RECURSIVE RangeCells(_, _, _, _, _)
RangeCells(data, row, row_end, start_col, end_col) ==
    IF row >= row_end THEN <<>>
    ELSE RowCells(row, start_col, Min(end_col + 1, Len(data[row + 1])))
         \o RangeCells(data, row + 1, row_end, start_col, end_col)

\* values.append for one cell
RangeStep(acc, one) == [values |-> acc.values \o one.values, depth |-> one.depth]
\* the two nested loops over the cells left; acc holds values and the depth
RECURSIVE RangeLoop(_, _, _)
RangeLoop(cells, data, acc) ==
    IF cells = <<>> THEN acc
    ELSE RangeLoop(Tail(cells), data,
                   RangeStep(acc, RangeCell(data[cells[1][1] + 1][cells[1][2] + 1], data,
                                            acc.depth)))

\* self._recursion_depth once the attribute exists
DepthOf(depth) == IF depth = Unset THEN 0 ELSE depth
\* _resolve_range_reference without the comparison with the limit
ResolveRange_Unlimited(r, data, depth) ==
    IF r.start_row = -1 THEN [values |-> <<>>, depth |-> depth]
    ELSE RangeLoop(RangeCells(data, r.start_row, Min(r.end_row + 1, Len(data)),
                              r.start_col, r.end_col),
                   data, [values |-> <<>>, depth |-> DepthOf(depth)])
ResolveRange(r, data, depth) ==
    IF r.start_row = -1 THEN [values |-> <<>>, depth |-> depth]
    ELSE IF DepthOf(depth) > RecursionLimit THEN [values |-> <<>>, depth |-> DepthOf(depth)]
    ELSE RangeLoop(RangeCells(data, r.start_row, Min(r.end_row + 1, Len(data)),
                              r.start_col, r.end_col),
                   data, [values |-> <<>>, depth |-> DepthOf(depth)])
_resolve_range_reference(ref, data, depth) ==
    ResolveRange(parse_range_reference(ref), data, depth)

\* eval(arg) of _evaluate_arg, under  try ... except: return arg
EvalArgOutcome(arg, r) ==
    IF r.k = "unsup" THEN UnsupV ELSE IF r.k = "val" THEN r.v ELSE StrV(arg)

\* the argument a cell reference resolves to
CellArg(r) == IF r.error = NoError THEN r.value ELSE IntV(0)
RangeArg(r) == [v |-> ListV(r.values), depth |-> r.depth]
\* an argument that is no string literal; n is float(arg) / int(arg)
PlainArg(n, arg, data, depth) ==
    IF n.k = "val" THEN [v |-> n.v, depth |-> depth]
    ELSE IF IsCellToken(arg)
    THEN [v |-> CellArg(_resolve_cell_reference(arg, data)), depth |-> depth]
    ELSE IF Contains(arg, <<":">>) THEN RangeArg(_resolve_range_reference(arg, data, depth))
    ELSE [v |-> EvalArgOutcome(arg, PyEval(arg)), depth |-> depth]

_evaluate_arg(arg, data, depth) ==
    IF arg = <<>> THEN [v |-> IntV(0), depth |-> depth]
    ELSE IF StartsWith(arg, <<"\"">>) /\ EndsWith(arg, <<"\"">>)
    THEN [v |-> StrV(PySlice(arg, 1, -1)), depth |-> depth]
    ELSE PlainArg(ParseNumber(arg), arg, data, depth)

\* args.append(a); current_arg = ""
AppendArg(st, a) ==
    [args |-> Append(st.args, a.v), current_arg |-> <<>>, paren_level |-> 0,
     depth |-> a.depth]

\* the loop of _parse_function_args over args_str from position i; st holds
\* args, current_arg, paren_level and the depth
RECURSIVE ArgsLoop(_, _, _, _)
ArgsLoop(args_str, i, data, st) ==
    IF i > Len(args_str) THEN st
    ELSE IF args_str[i] = "," /\ st.paren_level = 0
    THEN ArgsLoop(args_str, i + 1, data,
                  AppendArg(st, _evaluate_arg(Strip(st.current_arg), data, st.depth)))
    ELSE ArgsLoop(args_str, i + 1, data,
                  [st EXCEPT !.current_arg = Append(@, args_str[i]),
                             !.paren_level = IF args_str[i] = "(" THEN @ + 1
                                             ELSE IF args_str[i] = ")" THEN @ - 1 ELSE @])

\* the statements after the loop: the last argument
LastArg(st, data) ==
    IF Strip(st.current_arg) # <<>>
    THEN AppendArg(st, _evaluate_arg(Strip(st.current_arg), data, st.depth))
    ELSE st

_parse_function_args(args_str, data, depth) ==
    IF Strip(args_str) = <<>> THEN [args |-> <<>>, depth |-> depth]
    ELSE LastArg(ArgsLoop(args_str, 1, data,
                          [args |-> <<>>, current_arg |-> <<>>, paren_level |-> 0,
                           depth |-> depth]),
                 data)

\* self.supported_functions
SupportedFunctions ==
    {<<"S", "U", "M">>, <<"A", "V", "E", "R", "A", "G", "E">>, <<"C", "O", "U", "N", "T">>,
     <<"C", "O", "U", "N", "T", "A">>, <<"M", "A", "X">>, <<"M", "I", "N">>,
     <<"A", "B", "S">>, <<"R", "O", "U", "N", "D">>, <<"I", "N", "T">>,
     <<"S", "Q", "R", "T">>, <<"P", "O", "W", "E", "R">>, <<"I", "F">>,
     <<"A", "N", "D">>, <<"O", "R">>, <<"N", "O", "T">>, <<"L", "E", "N">>,
     <<"L", "E", "F", "T">>, <<"R", "I", "G", "H", "T">>, <<"M", "I", "D">>,
     <<"U", "P", "P", "E", "R">>, <<"L", "O", "W", "E", "R">>,
     <<"C", "O", "N", "C", "A", "T", "E", "N", "A", "T", "E">>}

\* self.supported_functions[func_name](args)
CallFunction(func_name, args) ==
    CASE func_name = <<"S", "U", "M">> -> _function_sum(args)
      [] func_name = <<"A", "V", "E", "R", "A", "G", "E">> -> _function_average(args)
      [] func_name = <<"C", "O", "U", "N", "T">> -> _function_count(args)
      [] func_name = <<"C", "O", "U", "N", "T", "A">> -> _function_counta(args)
      [] func_name = <<"M", "A", "X">> -> _function_max(args)
      [] func_name = <<"M", "I", "N">> -> _function_min(args)
      [] func_name = <<"A", "B", "S">> -> _function_abs(args)
      [] func_name = <<"R", "O", "U", "N", "D">> -> _function_round(args)
      [] func_name = <<"I", "N", "T">> -> _function_int(args)
      [] func_name = <<"S", "Q", "R", "T">> -> _function_sqrt(args)
      [] func_name = <<"P", "O", "W", "E", "R">> -> _function_power(args)
      [] func_name = <<"I", "F">> -> _function_if(args)
      [] func_name = <<"A", "N", "D">> -> _function_and(args)
      [] func_name = <<"O", "R">> -> _function_or(args)
      [] func_name = <<"N", "O", "T">> -> _function_not(args)
      [] func_name = <<"L", "E", "N">> -> _function_len(args)
      [] func_name = <<"L", "E", "F", "T">> -> _function_left(args)
      [] func_name = <<"R", "I", "G", "H", "T">> -> _function_right(args)
      [] func_name = <<"M", "I", "D">> -> _function_mid(args)
      [] func_name = <<"U", "P", "P", "E", "R">> -> _function_upper(args)
      [] func_name = <<"L", "O", "W", "E", "R">> -> _function_lower(args)
      [] func_name = <<"C", "O", "N", "C", "A", "T", "E", "N", "A", "T", "E">> ->
            _function_concatenate(args)

\* re.match(r'([A-Z]+)\s*\((.*)\)', text, re.IGNORECASE | re.DOTALL): the
\* name is the leading run of letters, the arguments run from the "(" after
\* it to the last ")" of the text
MatchFunction(text) ==
    LET nl == RunLen(text, 1, Letters)
        open == nl + RunLen(text, nl + 1, {" "}) + 1
        closes == {j \in (open + 1)..Len(text) : text[j] = ")"}
    IN  IF nl > 0 /\ CharAt(text, open) = "(" /\ closes # {}
        THEN LET close == CHOOSE j \in closes : \A x \in closes : x <= j
             IN  [ok |-> TRUE, name |-> SubSeq(text, 1, nl),
                  args_str |-> SubSeq(text, open + 1, close - 1)]
        ELSE [ok |-> FALSE]

IsUnsupported(v) ==
    \/ v = UnsupV
    \/ v = ErrV("UNSUPPORTED")
    \/ v.t = "list" /\ \E i \in 1..Len(v.l) : v.l[i] = UnsupV

\* func(args) turned into (value, error)
FunctionResult(result) ==
    IF result.t = "error" THEN ErrorResult(result.e) ELSE Result(result, NoError)

\* result = func(args) turned into the pair returned
CallResult(a, result) ==
    IF (\E i \in 1..Len(a.args) : IsUnsupported(a.args[i])) \/ IsUnsupported(result)
    THEN [r |-> Result(UnsupV, "UNSUPPORTED"), depth |-> a.depth]
    ELSE [r |-> FunctionResult(result), depth |-> a.depth]
CallWith(func_name, a) == CallResult(a, CallFunction(func_name, a.args))
\* variant: a name outside the table is reported as a value error
EvaluateMatch_UnknownIsValueError(m, data, depth) ==
    IF ~m.ok THEN [r |-> ErrorResult("NAME_ERROR"), depth |-> depth]
    ELSE IF Upper(m.name) \notin SupportedFunctions
    THEN [r |-> ErrorResult("VALUE_ERROR"), depth |-> depth]
    ELSE CallWith(Upper(m.name), _parse_function_args(m.args_str, data, depth))
EvaluateMatch(m, data, depth) ==
    IF ~m.ok THEN [r |-> ErrorResult("NAME_ERROR"), depth |-> depth]
    ELSE IF Upper(m.name) \notin SupportedFunctions
    THEN [r |-> ErrorResult("NAME_ERROR"), depth |-> depth]
    ELSE CallWith(Upper(m.name), _parse_function_args(m.args_str, data, depth))

_evaluate_function(text, data, depth) == EvaluateMatch(MatchFunction(text), data, depth)

\* the syntax check of the simple-math branch:
\* re.search(r'[\+\-\*/\^%]{2,}', text) or re.search(r'^[\+\*/\^%]|[\+\-\*/\^%]$', text)
HasOperatorRun(text) ==
    \E i \in 1..(Len(text) - 1) : text[i] \in OpChars /\ text[i + 1] \in OpChars
\* the syntax check without its second alternative  [\+\-\*/\^%]$
SyntaxCheckFails_NoTrailing(text) ==
    \/ HasOperatorRun(text)
    \/ text[1] \in {"+", "*", "/", "^", "%"}
SyntaxCheckFails(text) ==
    \/ HasOperatorRun(text)
    \/ text[1] \in {"+", "*", "/", "^", "%"}
    \/ text[Len(text)] \in OpChars

\* the handlers with a general handler that reports the wrong kind of error
SimpleMathResult_WrongKind(r) ==
    IF r.k = "unsup" THEN Result(UnsupV, "UNSUPPORTED")
    ELSE IF r.k = "val" THEN Result(r.v, NoError)
    ELSE IF r.k = "exc" /\ r.e = "ZeroDivisionError" THEN ErrorResult("DIV_ZERO")
    ELSE ErrorResult("NUM_ERROR")
\* the handlers without  except ZeroDivisionError:  the general handler takes it
SimpleMathResult_NoZeroDivision(r) ==
    IF r.k = "unsup" THEN Result(UnsupV, "UNSUPPORTED")
    ELSE IF r.k = "val" THEN Result(r.v, NoError)
    ELSE ErrorResult("VALUE_ERROR")
\* the handlers around  compile(...); eval(...)  of the simple-math branch
SimpleMathResult(r) ==
    IF r.k = "unsup" THEN Result(UnsupV, "UNSUPPORTED")
    ELSE IF r.k = "val" THEN Result(r.v, NoError)
    ELSE IF r.k = "exc" /\ r.e = "ZeroDivisionError" THEN ErrorResult("DIV_ZERO")
    ELSE ErrorResult("VALUE_ERROR")

\* the handler around  eval(evaluated_formula)  of the complex branch
ComplexResult(r) ==
    IF r.k = "unsup" THEN Result(UnsupV, "UNSUPPORTED")
    ELSE IF r.k = "val" THEN Result(r.v, NoError)
    ELSE ErrorResult("VALUE_ERROR")

ErrorTexts == {ErrorText(e) : e \in FormulaErrors}
\* FormulaError(text)
ErrorOfText(text) == CHOOSE e \in FormulaErrors : ErrorText(e) = text

FunctionOutcome(f) == [r |-> f.r, path |-> "function", depth |-> f.depth]

\* (result, error), the branch taken, and the depth left
_evaluate_formula(text, data, depth) ==
    IF Upper(text) \in ErrorTexts
    THEN [r |-> Result(StrV(text), ErrorOfText(Upper(text))), path |-> "error_value",
          depth |-> depth]
    ELSE IF IsSimpleMath(text)
    THEN IF SyntaxCheckFails(text)
         THEN [r |-> ErrorResult("VALUE_ERROR"), path |-> "syntax_check", depth |-> depth]
         ELSE [r |-> SimpleMathResult(PyCompileEval(ReplaceCaret(text))), path |-> "eval",
               depth |-> depth]
    ELSE IF IsCellToken(text)
    THEN [r |-> _resolve_cell_reference(text, data), path |-> "reference", depth |-> depth]
    ELSE IF HasFunctionCall(text)
    THEN FunctionOutcome(_evaluate_function(text, data, depth))
    ELSE [r |-> ComplexResult(PyEval(_substitute_references(text, data))),
          path |-> "complex", depth |-> depth]

\* variant: the function rule is tried before the IF rule
_detect_formula_type_FunctionFirst(text) ==
    IF HasFunctionCall(text) THEN "FUNCTION"
    ELSE IF Contains(Upper(text), <<"I", "F", "(">>) THEN "CONDITIONAL"
    ELSE IF Contains(text, <<"{">>) /\ Contains(text, <<"}">>) THEN "ARRAY"
    ELSE IF IsSimpleMath(text) THEN "SIMPLE_MATH"
    ELSE IF IsCellToken(text) THEN "REFERENCE"
    ELSE "COMPLEX"

_detect_formula_type(text) ==
    IF Contains(Upper(text), <<"I", "F", "(">>) THEN "CONDITIONAL"
    ELSE IF Contains(text, <<"{">>) /\ Contains(text, <<"}">>) THEN "ARRAY"
    ELSE IF HasFunctionCall(text) THEN "FUNCTION"
    ELSE IF IsSimpleMath(text) THEN "SIMPLE_MATH"
    ELSE IF IsCellToken(text) THEN "REFERENCE"
    ELSE "COMPLEX"

\* formula.strip(), then without a leading "="
CleanFormula(text) ==
    LET f == Strip(text) IN IF StartsWith(f, <<"=">>) THEN Tail(f) ELSE f

\* class FormulaInfo (dependencies and description are not modelled)
FormulaInfo(text, type, r) ==
    [original_formula |-> <<"=">> \o text, formula_type |-> type,
     calculated_value |-> r.value, error |-> r.error, is_calculated |-> TRUE]

\* the FormulaInfo returned, the branch taken, and the depth left
Calculation(f, e) ==
    [info |-> FormulaInfo(f, _detect_formula_type(f), e.r), path |-> e.path,
     depth |-> e.depth]
CalculateClean(f, data, depth) == Calculation(f, _evaluate_formula(f, data, depth))
calculate_formula(text, data, depth) == CalculateClean(CleanFormula(text), data, depth)

(***************************************************************************)
(* class FormulaProcessor                                                  *)
(***************************************************************************)
\* a Python dict: a function on the set of its keys
EmptyDict == [k \in {} |-> 0]
Get(d, k, default) == IF k \in DOMAIN d THEN d[k] ELSE default
Put(d, k, v) == (k :> v) @@ d

\* self.stats as __init__ sets it
NewStats ==
    [total_formulas |-> 0, calculated_formulas |-> 0, error_formulas |-> 0,
     function_usage |-> EmptyDict, error_types |-> EmptyDict]

\* re.search(r'([A-Z]+)\s*\(', text, re.IGNORECASE): the positions where a
\* match starts, and group(1) of the leftmost match
CallStarts(text) ==
    {i \in 1..Len(text) :
        LET nl == RunLen(text, i, Letters)
        IN  nl > 0 /\ CharAt(text, i + nl + RunLen(text, i + nl, {" "})) = "("}
FirstCalledName(text) ==
    LET i == CHOOSE x \in CallStarts(text) : \A y \in CallStarts(text) : x <= y
    IN  SubSeq(text, i, i + RunLen(text, i, Letters) - 1)

\* _update_statistics without the else branch that counts a failed formula
_update_statistics_ErrorsUncounted(st, formula_info) ==
    IF formula_info.is_calculated /\ formula_info.error = NoError
    THEN [st EXCEPT !.total_formulas = @ + 1, !.calculated_formulas = @ + 1]
    ELSE [st EXCEPT !.total_formulas = @ + 1]

\* _update_statistics counting only the formulas that calculated into the total
_update_statistics_TotalOfCalculated(st, formula_info) ==
    IF formula_info.is_calculated /\ formula_info.error = NoError
    THEN [st EXCEPT !.total_formulas = @ + 1, !.calculated_formulas = @ + 1]
    ELSE [st EXCEPT !.error_formulas = @ + 1]

\* _update_statistics counting the leading function of entries of every kind
_update_statistics_UsageOfAnyKind(st, formula_info) ==
    LET counted ==
            IF formula_info.is_calculated /\ formula_info.error = NoError
            THEN [st EXCEPT !.total_formulas = @ + 1, !.calculated_formulas = @ + 1]
            ELSE [st EXCEPT !.total_formulas = @ + 1, !.error_formulas = @ + 1]
        used ==
            IF CallStarts(formula_info.original_formula) # {}
            THEN LET func_name == Upper(FirstCalledName(formula_info.original_formula))
                 IN  [counted EXCEPT !.function_usage =
                                        Put(@, func_name, Get(@, func_name, 0) + 1)]
            ELSE counted
    IN  IF formula_info.error # NoError
        THEN [used EXCEPT !.error_types =
                             Put(@, formula_info.error, Get(@, formula_info.error, 0) + 1)]
        ELSE used

_update_statistics(st, formula_info) ==
    LET counted ==
            IF formula_info.is_calculated /\ formula_info.error = NoError
            THEN [st EXCEPT !.total_formulas = @ + 1, !.calculated_formulas = @ + 1]
            ELSE [st EXCEPT !.total_formulas = @ + 1, !.error_formulas = @ + 1]
        used ==
            IF formula_info.formula_type = "FUNCTION"
               /\ CallStarts(formula_info.original_formula) # {}
            THEN LET func_name == Upper(FirstCalledName(formula_info.original_formula))
                 IN  [counted EXCEPT !.function_usage =
                                        Put(@, func_name, Get(@, func_name, 0) + 1)]
            ELSE counted
    IN  IF formula_info.error # NoError
        THEN [used EXCEPT !.error_types =
                             Put(@, formula_info.error, Get(@, formula_info.error, 0) + 1)]
        ELSE used

\* the test without startswith('='): every text cell is taken for a formula
is_formula_cell_AnyText(value) == value.t = "str"
\* isinstance(cell_value, str) and cell_value.startswith('=')
is_formula_cell(value) == value.t = "str" /\ StartsWith(value.s, <<"=">>)

\* f"{row_idx}_{col_idx}"
FormulaKey(row_idx, col_idx) == NatStr(row_idx) \o <<"_">> \o NatStr(col_idx)

\* enumerate(data) x enumerate(row): the cells (row, col), 0-based, in scan order
RECURSIVE AllCells(_, _)
AllCells(data, row) ==
    IF row >= Len(data) THEN <<>>
    ELSE RowCells(row, 0, Len(data[row + 1])) \o AllCells(data, row + 1)

\* the statements of the scan loop after calculate_formula returned c
StoreFormula(acc, formula_key, c) ==
    [formulas |-> Put(acc.formulas, formula_key, c.info),
     stats |-> _update_statistics(acc.stats, c.info),
     cache |-> Put(acc.cache, formula_key, c.info),
     depth |-> c.depth]

\* the body of the scan loop for the cells left; acc holds
\* enhanced_data['formulas'], self.stats, self.formula_cache and the depth of
\* the pass's calculator
RECURSIVE ScanLoop(_, _, _)
ScanLoop(cells, data, acc) ==
    IF cells = <<>> THEN acc
    ELSE IF is_formula_cell(data[cells[1][1] + 1][cells[1][2] + 1])
    THEN ScanLoop(Tail(cells), data,
                  StoreFormula(acc, FormulaKey(cells[1][1], cells[1][2]),
                               calculate_formula(data[cells[1][1] + 1][cells[1][2] + 1].s,
                                                 data, acc.depth)))
    ELSE ScanLoop(Tail(cells), data, acc)

\* process_sheet_formulas with statistics that start at zero in every pass
process_sheet_formulas_FreshStats(data, st, cache) ==
    ScanLoop(AllCells(data, 0), data,
             [formulas |-> EmptyDict, stats |-> NewStats, cache |-> cache, depth |-> Unset])

process_sheet_formulas(data, st, cache) ==
    ScanLoop(AllCells(data, 0), data,
             [formulas |-> EmptyDict, stats |-> st, cache |-> cache, depth |-> Unset])

(***************************************************************************)
(* The inputs of the model                                                 *)
(***************************************************************************)
MaxRows == 2        \* rows of a grid
MaxCols == 2        \* cells of a row
MaxProcCells == 2   \* cells of a grid a processor scans
MaxPasses == 2      \* process_sheet_formulas calls on one processor
MaxMathLen == 4     \* characters of a generated arithmetic text

RowsOver(pool) == UNION {[1..n -> pool] : n \in 0..MaxCols}
GridsOver(pool) == UNION {[1..n -> RowsOver(pool)] : n \in 0..MaxRows}
CellCount(data) == Len(AllCells(data, 0))

\* the cells of the grids a FormulaProcessor scans: a number, a text, and
\* formulas that calculate, fail the syntax check, fail in eval, call a function
ProcPool ==
    {IntV(2), StrV(<<"x">>),
     StrV(<<"=", "1", "+", "1">>),
     StrV(<<"=", "1", "+", "+", "2">>),
     StrV(<<"=", "(", "1", ")", "(", "2", ")">>),
     StrV(<<"=", "S", "U", "M", "(", "A", "1", ":", "B", "1", ")">>)}
ProcGrids == {data \in GridsOver(ProcPool) : CellCount(data) <= MaxProcCells}

NoInfo == [none |-> TRUE]
NoPass == [none |-> TRUE]
NoFormula == <<"<", "n", "o", "n", "e", ">">>
NoReturn == [none |-> TRUE]
NoSnapshot == [none |-> TRUE]
NoScan == [none |-> TRUE]

(***************************************************************************)
(* Specification Spec: a FormulaProcessor and its passes.                  *)
(***************************************************************************)
Init ==
    /\ sheet_data = <<>>
    /\ formula = NoFormula
    /\ info = NoInfo
    /\ path = "none"
    /\ calc_depth = Unset
    /\ stats = NewStats
    /\ formula_cache = EmptyDict
    /\ enhanced = NoPass
    /\ passes = 0
    /\ returned = NoReturn
    /\ snapshot = NoSnapshot
    /\ sheet_keys = {"data"}
    /\ scan = NoScan

\* a pass that puts 'formulas' into sheet_data itself instead of a copy
PassDone_NoCopy(data, out) ==
    /\ sheet_data' = data
    /\ sheet_keys' = sheet_keys \cup {"formulas"}
    /\ enhanced' = out.formulas
    /\ stats' = out.stats
    /\ formula_cache' = out.cache

\* the processor and the returned mapping after a pass that ended as out;
\* 'formulas' is put into enhanced_data, a copy of the caller's mapping, and
\* nothing is assigned to the grid or to the caller's mapping
PassDone(data, out) ==
    /\ sheet_data' = data
    /\ sheet_keys' = sheet_keys
    /\ enhanced' = out.formulas
    /\ stats' = out.stats
    /\ formula_cache' = out.cache

\* enhanced_data = processor.process_sheet_formulas({'data': data})
ProcessSheetFormulas(data) ==
    /\ passes < MaxPasses
    /\ PassDone(data, process_sheet_formulas(data, stats, formula_cache))
    /\ passes' = passes + 1
    /\ UNCHANGED <<formula, info, path, calc_depth, returned, snapshot, scan>>

Next == \E data \in ProcGrids : ProcessSheetFormulas(data)

Spec == Init /\ [][Next]_vars

(***************************************************************************)
(* Specifications of calculate_formula: a FormulaCalculator is built on a  *)
(* grid and asked for one formula.                                         *)
(***************************************************************************)
\* FormulaCalculator({'data': data}) and the text about to be calculated
InitCalc(grids, texts) ==
    /\ sheet_data \in grids
    /\ formula \in texts
    /\ info = NoInfo
    /\ path = "none"
    /\ calc_depth = Unset
    /\ stats = NewStats
    /\ formula_cache = EmptyDict
    /\ enhanced = NoPass
    /\ passes = 0
    /\ returned = NoReturn
    /\ snapshot = NoSnapshot
    /\ sheet_keys = {"data"}
    /\ scan = NoScan

\* the calculator and the entry after calculate_formula ended as c
Returned(c) ==
    /\ info' = c.info
    /\ path' = c.path
    /\ calc_depth' = c.depth

\* info = calculator.calculate_formula(formula)
CalculateFormula ==
    /\ info = NoInfo
    /\ Returned(calculate_formula(formula, sheet_data, calc_depth))
    /\ UNCHANGED <<sheet_data, formula, stats, formula_cache, enhanced, passes, returned, snapshot,
                   sheet_keys, scan>>

NextCalc == CalculateFormula

\* the text calculate_formula evaluates
Clean == CleanFormula(formula)
Calculated == info # NoInfo

\* every input of the specifications is inside what the model computes
Modelled == Calculated => info.error # "UNSUPPORTED"

(***************************************************************************)
(* SpecMath: arithmetic texts                                              *)
(***************************************************************************)
MathAlphabet == {"0", "1", "2", "+", "-", "*", "/", "^", "%", "(", ")", " "}
StringsOver(alphabet, n) == UNION {[1..k -> alphabet] : k \in 1..n}
MathExtras ==
    {<<"1", "0", "/", "0">>, <<"=", "1", "0", "/", "0">>, <<"=", " ", "1", "/", "0">>,
     <<"2", "+", "3", "*", "4">>, <<"1", ".", "5", "*", "2">>, <<"1", "/", "0", ".", "0">>,
     <<"1", "/", "(", "2", "-", "2", ")">>, <<"2", "%", "(", "1", "-", "1", ")">>,
     <<"0", "^", "(", "-", "1", ")">>, <<"1", "+", "+", "2">>}
MathTexts == StringsOver(MathAlphabet, MaxMathLen) \cup MathExtras
MathGrids == {<<>>}

InitMath == InitCalc(MathGrids, MathTexts)
SpecMath == InitMath /\ [][NextCalc]_vars

(***************************************************************************)
(* Properties of a pass of process_sheet_formulas (Spec)                   *)
(***************************************************************************)
DecimalDigits == <<"0", "1", "2", "3", "4", "5", "6", "7", "8", "9">>
\* the key "{row}_{col}" of a cell, row and col below 10
KeyOf(row, col) == <<DecimalDigits[row + 1], "_", DecimalDigits[col + 1]>>
IsFormulaText(v) == v.t = "str" /\ Len(v.s) >= 1 /\ v.s[1] = "="
\* data[row][col] exists and is a text starting with "="
FormulaAt(row, col) ==
    /\ row < Len(sheet_data)
    /\ col < Len(sheet_data[row + 1])
    /\ IsFormulaText(sheet_data[row + 1][col + 1])
FormulaPositions == {rc \in (0..MaxRows) \X (0..MaxCols) : FormulaAt(rc[1], rc[2])}

\* C1: after a pass the 'formulas' mapping has the key "{row}_{col}" exactly
\* for the positions whose cell is a text starting with "=", and no other key.
C1_KeysAreFormulaCells ==
    passes > 0 =>
        /\ \A row \in 0..MaxRows, col \in 0..MaxCols :
              (KeyOf(row, col) \in DOMAIN enhanced) <=> FormulaAt(row, col)
        /\ DOMAIN enhanced \subseteq {KeyOf(rc[1], rc[2]) : rc \in (0..MaxRows) \X (0..MaxCols)}

C1_Witness ==
    /\ passes > 0
    /\ sheet_data = <<<<StrV(<<"x">>)>>, <<StrV(<<"=", "1", "+", "1">>)>>>>
    /\ DOMAIN enhanced = {<<"1", "_", "0">>}

\* C2: after the first pass of a new processor, calculated_formulas +
\* error_formulas = total_formulas = the number of cells of the grid that are
\* texts starting with "=".
C2_CountsAddUp ==
    passes = 1 =>
        /\ stats.calculated_formulas + stats.error_formulas = stats.total_formulas
        /\ stats.total_formulas = Cardinality(FormulaPositions)

C2_Witness ==
    /\ passes = 1
    /\ stats.total_formulas = 2
    /\ stats.calculated_formulas = 1
    /\ stats.error_formulas = 1

\* compile/eval ends r with a fault: an exception other than a division by
\* zero, or a text that does not compile
IsFault(r) == r.k = "syn" \/ (r.k = "exc" /\ r.e # "ZeroDivisionError")
\* the evaluation of the arithmetic text f fails: the syntax check rejects it
\* or compile/eval raises
FailsToEvaluate(f) ==
    /\ IsSimpleMath(f)
    /\ \/ f[1] \in OpChars \ {"-"}
       \/ f[Len(f)] \in OpChars
       \/ \E i \in 1..(Len(f) - 1) : f[i] \in OpChars /\ f[i + 1] \in OpChars
       \/ IsFault(PyCompileEval(ReplaceCaret(f)))

\* C3: after a pass every formula cell of the grid has its entry, and the
\* entry of a cell whose evaluation fails (a malformed text such as "=1++2",
\* or an exception raised by its evaluation) carries the error VALUE_ERROR:
\* the failure of one cell does not stop the scan.
C3_FailureIsContained ==
    passes > 0 =>
        \A rc \in FormulaPositions :
            /\ KeyOf(rc[1], rc[2]) \in DOMAIN enhanced
            /\ FailsToEvaluate(Tail(sheet_data[rc[1] + 1][rc[2] + 1].s))
                  => enhanced[KeyOf(rc[1], rc[2])].error = "VALUE_ERROR"

C3_Witness ==
    /\ passes > 0
    /\ sheet_data = <<<<StrV(<<"=", "1", "+", "+", "2">>), StrV(<<"=", "1", "+", "1">>)>>>>
    /\ enhanced[<<"0", "_", "0">>].error = "VALUE_ERROR"
    /\ enhanced[<<"0", "_", "1">>].error = NoError
    /\ enhanced[<<"0", "_", "1">>].calculated_value = IntV(2)

(***************************************************************************)
(* Properties of arithmetic texts (SpecMath)                               *)
(***************************************************************************)
\* the eval step raises ZeroDivisionError on the text
DividesByZero(text) ==
    LET r == PyCompileEval(ReplaceCaret(text))
    IN  r.k = "exc" /\ r.e = "ZeroDivisionError"

OperatorChars == {"+", "-", "*", "/", "^", "%"}
HasConsecutiveOperators(text) ==
    \E i \in 1..(Len(text) - 1) : text[i] \in OperatorChars /\ text[i + 1] \in OperatorChars
\* malformed as the claim words it: any operator character first or last
MalformedAsStated(text) ==
    \/ text[1] \in OperatorChars
    \/ text[Len(text)] \in OperatorChars
    \/ HasConsecutiveOperators(text)
\* malformed as the check decides it: a leading "-" is a sign
Malformed(text) ==
    \/ text[1] \in OperatorChars \ {"-"}
    \/ text[Len(text)] \in OperatorChars
    \/ HasConsecutiveOperators(text)
RejectedBeforeEval ==
    /\ info.error = "VALUE_ERROR"
    /\ info.calculated_value = StrV(<<"#", "V", "A", "L", "U", "E", "!">>)
    /\ path = "syntax_check"

C5_LeadingMinus ==
    /\ Calculated
    /\ formula = <<"-", "1">>
    /\ path = "eval"
    /\ info.error = NoError
    /\ info.calculated_value = IntV(-1)

(***************************************************************************)
(* Bare cell references (SpecRef): calculate_formula on a text that is one *)
(* column letter and one row digit, over grids with blank cells.           *)
(***************************************************************************)
MaxCalcCells == 3   \* cells of a grid a calculator is built on
CalcGridsOver(pool) == {data \in GridsOver(pool) : CellCount(data) <= MaxCalcCells}

RefPool == {NoneV, StrV(<<>>), IntV(2), StrV(<<"x">>)}
RefTexts == {<<c, r>> : c \in {"A", "B", "C"}, r \in {"1", "2", "3"}}
InitRef == InitCalc(CalcGridsOver(RefPool), RefTexts)
SpecRef == InitRef /\ [][NextCalc]_vars

\* the 0-based row and column a text names at position i: a letter, a digit
Corner(text, i) == [row |-> DigitVal(text[i + 1]) - 1, col |-> LetterOrd(text[i]) - 1]
InGrid(row, col) == row < Len(sheet_data) /\ col < Len(sheet_data[row + 1])
IsBlank(v) == v = NoneV \/ v = StrV(<<>>)
\* the cell at c is outside the grid or blank
Misses(c) == ~InGrid(c.row, c.col) \/ IsBlank(sheet_data[c.row + 1][c.col + 1])
\* the values the range "ref:ref" of the single cell ref resolves to
SingleCellRange(ref) == _resolve_range_reference(ref \o <<":">> \o ref, sheet_data, Unset).values

\* C6 (as stated): a bare reference to a cell that is blank (None or "") or
\* outside the grid evaluates to the number 0 with no error, and the range
\* made of that one cell resolves to no value.
C6_AsStated ==
    (Calculated /\ Misses(Corner(Clean, 1))) =>
        /\ info.error = NoError
        /\ info.calculated_value = IntV(0)
        /\ SingleCellRange(Clean) = <<>>

\* the part of C6 the code keeps: None and cells outside the grid give 0,
\* and no missing cell adds a value to a range
C6_NoneOrOutsideIsZero ==
    (Calculated /\ Misses(Corner(Clean, 1))) =>
        /\ info.error = NoError
        /\ SingleCellRange(Clean) = <<>>
        /\ (InGrid(Corner(Clean, 1).row, Corner(Clean, 1).col)
              /\ sheet_data[Corner(Clean, 1).row + 1][Corner(Clean, 1).col + 1] = StrV(<<>>))
           \/ info.calculated_value = IntV(0)

\* the empty text comes back as the empty text
C6_EmptyTextStaysText ==
    /\ Calculated
    /\ sheet_data = <<<<StrV(<<>>)>>>>
    /\ Clean = <<"A", "1">>
    /\ info.error = NoError
    /\ info.calculated_value = StrV(<<>>)

(***************************************************************************)
(* Aggregates over one range (SpecRange): SUM, AVERAGE and COUNT of a      *)
(* range over grids of numbers, numeric text, other text and blanks.       *)
(***************************************************************************)
RangePool == {NoneV, StrV(<<>>), IntV(2), StrV(<<"1", ".", "5">>), StrV(<<"x">>)}
\* A2 = 100, A3 = 200, A4 = "150"
ExampleGrid == <<<<StrV(<<"x">>)>>, <<IntV(100)>>, <<IntV(200)>>, <<StrV(<<"1", "5", "0">>)>>>>
RangeGrids == CalcGridsOver(RangePool) \cup {ExampleGrid}
RangeNames == {<<"S", "U", "M">>, <<"A", "V", "E", "R", "A", "G", "E">>, <<"C", "O", "U", "N", "T">>}
RangeArgs ==
    {<<"A", "1", ":", "B", "2">>, <<"A", "1", ":", "A", "2">>, <<"B", "1", ":", "B", "2">>, <<"A", "2", ":", "C", "3">>,
     <<"B", "2", ":", "A", "1">>, <<"A", "1", ":", "A", "1">>, <<"A", "2", ":", "A", "4">>}
RangeTexts == {n \o <<"(">> \o a \o <<")">> : n \in RangeNames, a \in RangeArgs}
InitRange == InitCalc(RangeGrids, RangeTexts)
SpecRange == InitRange /\ [][NextCalc]_vars

\* the function name and the range of a text NAME(XN:YM)
NameOfCall(text) == SubSeq(text, 1, RunLen(text, 1, Letters))
RangeOfCall(text) == SubSeq(text, RunLen(text, 1, Letters) + 2, Len(text) - 1)
\* a raw cell value that is a number or a text float() accepts
IsNumeric(v) == v.t \in {"int", "float"} \/ (v.t = "str" /\ PyFloat(v.s).k = "val")
NumericOf(v) == IF v.t = "str" THEN PyFloat(v.s).v ELSE v
NumericAt(rc) == NumericOf(sheet_data[rc[1] + 1][rc[2] + 1])
\* the positions of the rectangle from corner a to corner b that are cells of
\* the grid and hold a number or numeric text
NumericCells(a, b) ==
    {rc \in (a.row..b.row) \X (a.col..b.col) :
        InGrid(rc[1], rc[2]) /\ IsNumeric(sheet_data[rc[1] + 1][rc[2] + 1])}
\* the sum of the values at the positions S as a fraction over P, the
\* product of their denominators
RECURSIVE DenomProduct(_)
DenomProduct(S) ==
    IF S = {} THEN 1
    ELSE LET x == CHOOSE x \in S : TRUE IN NumD(NumericAt(x)) * DenomProduct(S \ {x})
RECURSIVE ScaledSum(_, _)
ScaledSum(S, P) ==
    IF S = {} THEN 0
    ELSE LET x == CHOOSE x \in S : TRUE
         IN  NumN(NumericAt(x)) * (P \div NumD(NumericAt(x))) + ScaledSum(S \ {x}, P)
\* the value v is the number n/d
IsRatio(v, n, d) == v.t \in {"int", "float"} /\ NumN(v) * d = n * NumD(v)
\* v is what NAME gives over the numeric cells S
AggregateIs(name, v, S) ==
    CASE name = <<"S", "U", "M">> -> IsRatio(v, ScaledSum(S, DenomProduct(S)), DenomProduct(S))
      [] name = <<"A", "V", "E", "R", "A", "G", "E">> ->
            IF S = {} THEN v = IntV(0)
            ELSE IsRatio(v, ScaledSum(S, DenomProduct(S)), DenomProduct(S) * Cardinality(S))
      [] name = <<"C", "O", "U", "N", "T">> -> v = IntV(Cardinality(S))

\* C7: SUM, AVERAGE and COUNT of one range over a grid without formula cells
\* give the sum, the mean and the count of the cells of the rectangle that
\* lie inside the grid and hold a number or numeric text; blanks and other
\* text are left out, and AVERAGE over no such cell is 0.
C7_AggregateOverNumericCells ==
    Calculated =>
        /\ info.error = NoError
        /\ AggregateIs(NameOfCall(Clean), info.calculated_value,
                       NumericCells(Corner(RangeOfCall(Clean), 1), Corner(RangeOfCall(Clean), 4)))

C7_Witness ==
    /\ Calculated
    /\ sheet_data = ExampleGrid
    /\ Clean = <<"S", "U", "M", "(", "A", "2", ":", "A", "4", ")">>
    /\ info.calculated_value = IntV(450)

\* AVERAGE of the example, and a range with a blank and a text in it
C7_WitnessAverage ==
    /\ Calculated
    /\ \/ /\ sheet_data = ExampleGrid
          /\ Clean = <<"A", "V", "E", "R", "A", "G", "E", "(", "A", "2", ":", "A", "4", ")">>
          /\ info.calculated_value = FloatV(150, 1)
       \/ /\ sheet_data = <<<<IntV(2), StrV(<<>>)>>, <<StrV(<<"x">>)>>>>
          /\ Clean = <<"C", "O", "U", "N", "T", "(", "A", "1", ":", "B", "2", ")">>
          /\ info.calculated_value = IntV(1)

(***************************************************************************)
(* Conditions of IF (SpecIf): IF(l op r,"big","small") and IF(l op r,"big")*)
(* with l and r numeric literals or references to cells holding numbers.   *)
(***************************************************************************)
IfPool == {IntV(2), IntV(7)}
IfOperands == {<<"2">>, <<"5">>, <<"A", "1">>, <<"B", "1">>}
IfOperators == {<<">">>, <<"<">>, <<">", "=">>, <<"<", "=">>, <<"=">>}
IfElses == {<<",", "\"", "s", "m", "a", "l", "l", "\"">>, <<>>}
IfText(l, op, r, e) == <<"I", "F", "(">> \o l \o op \o r \o <<",", "\"", "b", "i", "g", "\"">> \o e \o <<")">>
IfTexts == {IfText(l, op, r, e) : l \in IfOperands, op \in IfOperators, r \in IfOperands, e \in IfElses}
InitIf == InitCalc(CalcGridsOver(IfPool), IfTexts)
SpecIf == InitIf /\ [][NextCalc]_vars

\* the operand is a literal or names a cell of the grid
OperandDefined(o) == o[1] \in Digits \/ InGrid(Corner(o, 1).row, Corner(o, 1).col)
\* the number an operand stands for: the literal, or the number in the cell
OperandValue(o) ==
    IF o[1] \in Digits THEN DigitVal(o[1])
    ELSE sheet_data[Corner(o, 1).row + 1][Corner(o, 1).col + 1].n
Compares(op, a, b) ==
    CASE op = <<">">> -> a > b
      [] op = <<"<">> -> a < b
      [] op = <<">", "=">> -> a >= b
      [] op = <<"<", "=">> -> a <= b
      [] op = <<"=">> -> a = b
\* IF(c, "big", else) for a condition that is cond
IfValue(cond, e) == IF cond THEN StrV(<<"b", "i", "g">>) ELSE IF e = <<>> THEN BoolV(FALSE) ELSE StrV(<<"s", "m", "a", "l", "l">>)

\* C8 (as stated): IF(c,a,b) is a when the comparison c holds between the
\* literals and the grid's values, b when it does not, and False when it
\* does not and b is omitted.
C8_AsStated ==
    Calculated =>
        \A l \in IfOperands, op \in IfOperators, r \in IfOperands, e \in IfElses :
            (Clean = IfText(l, op, r, e) /\ OperandDefined(l) /\ OperandDefined(r)) =>
                /\ info.error = NoError
                /\ info.calculated_value
                      = IfValue(Compares(op, OperandValue(l), OperandValue(r)), e)

\* the part of C8 the code keeps: conditions between literals with an
\* operator Python knows
C8_LiteralConditions ==
    Calculated =>
        \A l \in IfOperands, op \in IfOperators \ {<<"=">>}, r \in IfOperands, e \in IfElses :
            (Clean = IfText(l, op, r, e) /\ l[1] \in Digits /\ r[1] \in Digits) =>
                /\ info.error = NoError
                /\ info.calculated_value
                      = IfValue(Compares(op, OperandValue(l), OperandValue(r)), e)

\* A1 = 2 is not above 5, and the formula says "big"
C8_ReferenceConditionIsTrue ==
    /\ Calculated
    /\ sheet_data = <<<<IntV(2)>>>>
    /\ Clean = <<"I", "F", "(", "A", "1", ">", "5", ",", "\"", "b", "i", "g", "\"", ",", "\"", "s", "m", "a", "l", "l", "\"", ")">>
    /\ info.error = NoError
    /\ info.calculated_value = StrV(<<"b", "i", "g">>)

(***************************************************************************)
(* Errors inside a formula (SpecArgs): parts that are errors on their own, *)
(* as arguments of a function and as operands of a sum.                    *)
(***************************************************************************)
ArgPool == {IntV(2)}
ArgParts == {<<"1">>, <<"2">>, <<"1", "/", "0">>, <<"2", "/", "0">>, <<"A", "0">>, <<"A", "1">>}
\* the parts that are an error in every grid: a division by zero and a
\* reference to row 0
FailingParts == {<<"1", "/", "0">>, <<"2", "/", "0">>, <<"A", "0">>}
ArgNames == {<<"S", "U", "M">>, <<"M", "A", "X">>}
CallText(n, a, b) == n \o <<"(">> \o a \o <<",">> \o b \o <<")">>
SumText(a, b) == a \o <<"+">> \o b
ArgTexts ==
    ArgParts
    \cup {CallText(n, a, b) : n \in ArgNames, a \in ArgParts, b \in ArgParts}
    \cup {SumText(a, b) : a \in ArgParts, b \in ArgParts}
InitArgs == InitCalc(GridsOver(ArgPool), ArgTexts)
SpecArgs == InitArgs /\ [][NextCalc]_vars

\* the formula is a failing part, or has one as argument or operand
HasFailingPart(text) ==
    \/ text \in FailingParts
    \/ \E n \in ArgNames, a \in ArgParts, b \in ArgParts :
          text = CallText(n, a, b) /\ (a \in FailingParts \/ b \in FailingParts)
    \/ \E a \in ArgParts, b \in ArgParts :
          text = SumText(a, b) /\ (a \in FailingParts \/ b \in FailingParts)

\* C9 (as stated): a formula with a part that is an error has an error
\* itself; it is never returned with error None.
C9_AsStated == (Calculated /\ HasFailingPart(Clean)) => info.error # NoError

\* each failing part alone is an error
C9_PartsFailAlone == (Calculated /\ Clean \in FailingParts) => info.error # NoError

\* SUM(1/0,2) is 2 with no error
C9_ErrorIsDropped ==
    /\ Calculated
    /\ Clean = <<"S", "U", "M", "(", "1", "/", "0", ",", "2", ")">>
    /\ info.error = NoError
    /\ info.calculated_value = IntV(2)

(***************************************************************************)
(* Function names (SpecName): NAME(args) for every NAME of up to           *)
(* MaxNameLen letters.                                                     *)
(***************************************************************************)
MaxNameLen == 3     \* letters of a generated function name
NameLetters == {"S", "U", "M", "I", "F", "s", "x"}
NameArgs == {<<>>, <<"1">>, <<"1", ",", "2">>, <<"A", "1">>, <<"\"", "a", "\"">>, <<"S", "U", "M", "(", "1", ")">>, <<"1", "/", "0">>, <<")", "(">>}
NameTexts == {n \o <<"(">> \o a \o <<")">> : n \in StringsOver(NameLetters, MaxNameLen), a \in NameArgs}
NameGrids == {<<>>, <<<<IntV(2)>>>>}
InitName == InitCalc(NameGrids, NameTexts)
SpecName == InitName /\ [][NextCalc]_vars

\* the text is NAME(args) with NAME made of letters only
IsCall(text) ==
    /\ RunLen(text, 1, Letters) > 0
    /\ RunLen(text, 1, Letters) + 1 < Len(text)
    /\ text[RunLen(text, 1, Letters) + 1] = "("
    /\ text[Len(text)] = ")"

\* C10: a formula NAME(args) whose NAME, letters only, is in no letter case
\* one of the 22 names of the function table is returned with the error
\* NAME_ERROR and the value "#NAME?", whatever args is.
C10_UnknownNameIsNameError ==
    (Calculated /\ IsCall(Clean) /\ Upper(NameOfCall(Clean)) \notin SupportedFunctions) =>
        /\ info.error = "NAME_ERROR"
        /\ info.calculated_value = StrV(<<"#", "N", "A", "M", "E", "?">>)

C10_Witness ==
    /\ Calculated
    /\ Clean = <<"M", "U", "S", "(", "1", ",", "2", ")">>
    /\ info.error = "NAME_ERROR"
    /\ info.calculated_value = StrV(<<"#", "N", "A", "M", "E", "?">>)

(***************************************************************************)
(* Argument counts of the builtins (SpecArity): NAME(a1,...,an) for the    *)
(* builtins with an arity rule, n from 0 to MaxArgs.                       *)
(***************************************************************************)
MaxArgs == 4        \* arguments of a generated call
ArityNames ==
    {<<"A", "B", "S">>, <<"I", "N", "T">>, <<"S", "Q", "R", "T">>, <<"N", "O", "T">>, <<"L", "E", "N">>, <<"U", "P", "P", "E", "R">>, <<"L", "O", "W", "E", "R">>, <<"P", "O", "W", "E", "R">>, <<"M", "I", "D">>,
     <<"R", "O", "U", "N", "D">>, <<"L", "E", "F", "T">>, <<"R", "I", "G", "H", "T">>, <<"I", "F">>, <<"A", "N", "D">>, <<"O", "R">>}
ArityArgs == {<<"1">>, <<"-", "4">>}
ArgLists == UNION {[1..n -> ArityArgs] : n \in 0..MaxArgs}
ArityText(n, as) == n \o <<"(">> \o JoinStr(as, <<",">>) \o <<")">>
ArityTexts == {ArityText(n, as) : n \in ArityNames, as \in ArgLists}
InitArity == InitCalc({<<>>}, ArityTexts)
SpecArity == InitArity /\ [][NextCalc]_vars

\* the arity rule of the table: n arguments are accepted by NAME
ArityAccepted(name, n) ==
    CASE name \in {<<"A", "B", "S">>, <<"I", "N", "T">>, <<"S", "Q", "R", "T">>, <<"N", "O", "T">>, <<"L", "E", "N">>, <<"U", "P", "P", "E", "R">>, <<"L", "O", "W", "E", "R">>} -> n = 1
      [] name = <<"P", "O", "W", "E", "R">> -> n = 2
      [] name = <<"M", "I", "D">> -> n = 3
      [] name \in {<<"R", "O", "U", "N", "D">>, <<"L", "E", "F", "T">>, <<"R", "I", "G", "H", "T">>} -> n \in {1, 2}
      [] name = <<"I", "F">> -> n \in {2, 3}
      [] name \in {<<"A", "N", "D">>, <<"O", "R">>} -> n >= 1
\* the entry carries the error e and its text
HasError(e) == info.error = e /\ info.calculated_value = StrV(ErrorText(e))
\* the error the table lists for NAME applied to as, if any
ListedError(name, as) ==
    IF ~ArityAccepted(name, Len(as)) THEN "VALUE_ERROR"
    ELSE IF name = <<"S", "Q", "R", "T">> /\ as[1] = <<"-", "4">> THEN "NUM_ERROR"
    ELSE NoError

\* C11 (as stated): a call whose argument count is outside the arity rule of
\* its builtin has the error VALUE_ERROR, SQRT of a negative number has the
\* error NUM_ERROR, and that error is the error of the formula.
C11_AsStated ==
    Calculated =>
        \A n \in ArityNames, as \in ArgLists :
            (Clean = ArityText(n, as) /\ ListedError(n, as) # NoError)
                => HasError(ListedError(n, as))

\* the part of C11 the code keeps: every builtin but AND and OR
C11_CheckedArities ==
    Calculated =>
        \A n \in ArityNames \ {<<"A", "N", "D">>, <<"O", "R">>}, as \in ArgLists :
            (Clean = ArityText(n, as) /\ ListedError(n, as) # NoError)
                => HasError(ListedError(n, as))

\* AND() is True with no error
C11_AndOfNothing ==
    /\ Calculated
    /\ Clean = <<"A", "N", "D", "(", ")">>
    /\ info.error = NoError
    /\ info.calculated_value = BoolV(TRUE)

(***************************************************************************)
(* Functions of a text (InitFunction): the specifications below hand one   *)
(* text to one method that only computes a value from it.                  *)
(***************************************************************************)
InitFunction(texts) ==
    /\ sheet_data = <<>>
    /\ formula \in texts
    /\ info = NoInfo
    /\ path = "none"
    /\ calc_depth = Unset
    /\ stats = NewStats
    /\ formula_cache = EmptyDict
    /\ enhanced = NoPass
    /\ passes = 0
    /\ returned = NoReturn
    /\ snapshot = NoSnapshot
    /\ sheet_keys = {"data"}
    /\ scan = NoScan
\* returned = method(formula)
Returns(value) ==
    /\ returned = NoReturn
    /\ returned' = [value |-> value]
    /\ UNCHANGED <<sheet_data, formula, info, stats, formula_cache, path, calc_depth, enhanced,
                   passes, snapshot, sheet_keys, scan>>
HasReturned == returned # NoReturn

(***************************************************************************)
(* Classification (SpecType): _detect_formula_type on every text of up to  *)
(* MaxTypeLen characters.                                                  *)
(***************************************************************************)
MaxTypeLen == 4     \* characters of a classified text
TypeAlphabet == {"I", "f", "F", "(", "{", "}", "1", "A", " ", "+"}
TypeTexts == StringsOver(TypeAlphabet, MaxTypeLen)
InitType == InitFunction(TypeTexts)
\* returned = calculator._detect_formula_type(formula)
DetectFormulaType == Returns(_detect_formula_type(formula))
NextType == DetectFormulaType
SpecType == InitType /\ [][NextType]_vars

\* the rules of the classification, each stated on the text
HasIfParen(text) ==
    \E i \in 1..(Len(text) - 2) :
        text[i] \in {"I", "i"} /\ text[i + 1] \in {"F", "f"} /\ text[i + 2] = "("
HasBraces(text) == (\E i \in 1..Len(text) : text[i] = "{") /\ (\E i \in 1..Len(text) : text[i] = "}")
\* a letter, blanks or nothing, then "("
HasLettersParen(text) ==
    \E i \in 1..Len(text), j \in 1..Len(text) :
        i < j /\ text[i] \in Letters /\ text[j] = "(" /\ \A k \in (i + 1)..(j - 1) : text[k] = " "
OnlyMathChars(text) ==
    \A i \in 1..Len(text) :
        text[i] \in Digits \cup {" ", "+", "-", "*", "/", "(", ")", ".", "^", "%"}
OneCellToken(text) ==
    \E n \in 1..(Len(text) - 1) :
        /\ \A i \in 1..n : text[i] \in Letters
        /\ \A i \in (n + 1)..Len(text) : text[i] \in Digits
FirstRule(text) ==
    IF HasIfParen(text) THEN "CONDITIONAL"
    ELSE IF HasBraces(text) THEN "ARRAY"
    ELSE IF HasLettersParen(text) THEN "FUNCTION"
    ELSE IF OnlyMathChars(text) THEN "SIMPLE_MATH"
    ELSE IF OneCellToken(text) THEN "REFERENCE"
    ELSE "COMPLEX"
\* the text calls IF: the name IF, blanks or nothing, then "("
CallsIf(text) ==
    \E i \in 1..(Len(text) - 2), j \in 1..Len(text) :
        /\ i + 1 < j
        /\ text[i] \in {"I", "i"} /\ text[i + 1] \in {"F", "f"}
        /\ (i = 1 \/ text[i - 1] \notin Letters)
        /\ text[j] = "("
        /\ \A k \in (i + 2)..(j - 1) : text[k] = " "

C12_IfWithBlank ==
    /\ HasReturned
    /\ formula = <<"I", "F", " ", "(">>
    /\ returned.value = "FUNCTION"

(***************************************************************************)
(* Renderings of coordinates (SpecRender): parse_cell_reference on the A1  *)
(* text of a coordinate, in upper or lower case, with or without "$".      *)
(***************************************************************************)
MaxRefRow == 9      \* largest 0-based row rendered
MaxRefCol == 27     \* largest 0-based column of the contiguous columns rendered
RefRows == 0..MaxRefRow
\* columns A..AB, and ZZ and AAA
RefCols == (0..MaxRefCol) \cup {701, 702}
\* the column number n >= 1 in bijective base 26, A = 1 .. Z = 26, AA = 27
RECURSIVE ColumnLetters(_)
ColumnLetters(n) ==
    IF n = 0 THEN <<>>
    ELSE ColumnLetters((n - 1) \div 26) \o <<Alphabet[((n - 1) % 26) + 1]>>
Dollar(on) == IF on THEN <<"$">> ELSE <<>>
\* the rendering of (row, col): lower-cased or not, "$" before the letters
\* or not, "$" before the digits or not
Rendering(row, col, lower, d1, d2) ==
    Dollar(d1) \o (IF lower THEN Lower(ColumnLetters(col + 1)) ELSE ColumnLetters(col + 1))
    \o Dollar(d2) \o NatStr(row + 1)
Renderings ==
    {[row |-> row, col |-> col, text |-> Rendering(row, col, lower, d1, d2)] :
        row \in RefRows, col \in RefCols, lower \in BOOLEAN, d1 \in BOOLEAN, d2 \in BOOLEAN}
InitRender == InitFunction({r.text : r \in Renderings})
\* returned = cell_ref.parse_cell_reference(formula)
ParseCellReference == Returns(parse_cell_reference(formula))
NextRender == ParseCellReference
SpecRender == InitRender /\ [][NextRender]_vars

\* C13: parse_cell_reference of the A1 rendering of (row, col) returns
\* (None, row, col), also when the letters are lower-cased and when "$"
\* stands before the letters and/or before the digits.
C13_RenderingParsesBack ==
    HasReturned =>
        \A r \in Renderings :
            formula = r.text => returned.value = [sheet |-> NoSheet, row |-> r.row, col |-> r.col]

C13_Witness ==
    /\ HasReturned
    /\ formula = <<"$", "a", "a", "$", "1", "0">>
    /\ returned.value = [sheet |-> NoSheet, row |-> 9, col |-> 26]

(***************************************************************************)
(* Tokens (SpecToken): parse_cell_reference on every text of up to         *)
(* MaxTokenLen characters.                                                 *)
(***************************************************************************)
MaxTokenLen == 4    \* characters of a token
TokenAlphabet == {"A", "b", "1", "0", "$", "!", " ", "+"}
InitToken == InitFunction(StringsOver(TokenAlphabet, MaxTokenLen))
SpecToken == InitToken /\ [][NextRender]_vars

\* s[a..] starts with  $? LETTERS $? DIGITS
StartsWithCell(s, a) ==
    \E l \in a..Len(s), d \in a..Len(s) :
        /\ l < d
        /\ \A i \in a..l : s[i] \in Letters \/ (i = a /\ i < l /\ s[i] = "$")
        /\ \A i \in (l + 1)..d : s[i] \in Digits \/ (i = l + 1 /\ i < d /\ s[i] = "$")
\* the token, blanks around it aside, starts with (SHEETNAME!)? $? LETTERS $? DIGITS
MatchesGrammar(token) ==
    \/ StartsWithCell(Strip(token), 1)
    \/ \E k \in 2..Len(Strip(token)) :
          /\ Strip(token)[k] = "!"
          /\ \A i \in 1..(k - 1) : Strip(token)[i] # "!"
          /\ StartsWithCell(Strip(token), k + 1)
IsSentinel(c) == c = [sheet |-> NoSheet, row |-> -1, col |-> -1]

\* C14 (as stated): the result is the failure sentinel exactly when the
\* token does not match the grammar, otherwise a coordinate with row >= 0
\* and col >= 0; so row = -1 if and only if col = -1.
C14_AsStated ==
    HasReturned =>
        /\ IsSentinel(returned.value) <=> ~MatchesGrammar(formula)
        /\ ~IsSentinel(returned.value) => (returned.value.row >= 0 /\ returned.value.col >= 0)
        /\ returned.value.row = -1 <=> returned.value.col = -1

\* the part of C14 the code keeps: the sentinel exactly on a mismatch, and
\* a column >= 0 with a row >= -1 otherwise
C14_SentinelOnMismatch ==
    HasReturned =>
        /\ IsSentinel(returned.value) <=> ~MatchesGrammar(formula)
        /\ ~IsSentinel(returned.value) => (returned.value.row >= -1 /\ returned.value.col >= 0)

\* "A0" matches the grammar and comes back as row -1, column 0
C14_RowZero ==
    /\ HasReturned
    /\ formula = <<"A", "0">>
    /\ returned.value = [sheet |-> NoSheet, row |-> -1, col |-> 0]

(***************************************************************************)
(* Dependencies (SpecDeps): _extract_dependencies on texts made of up to   *)
(* MaxDepPieces pieces.                                                    *)
(***************************************************************************)
\* the length of the longest run of the regex class [^!\s] that starts at s[i]
RECURSIVE NameRunLen(_, _)
NameRunLen(s, i) ==
    IF i <= Len(s) /\ s[i] \notin {"!", " "} THEN 1 + NameRunLen(s, i + 1) ELSE 0
\* [A-Z]+\d+ (IGNORECASE) at s[i], l letters long: the position after the
\* match, 0 when there is none
CellEndAfter(s, i, l) ==
    IF l > 0 /\ RunLen(s, i + l, Digits) > 0 THEN i + l + RunLen(s, i + l, Digits) ELSE 0
CellEnd(s, i) == CellEndAfter(s, i, RunLen(s, i, Letters))
\* [A-Z]+\d+:[A-Z]+\d+ at s[i], e the position after its first cell
RangeEndAfter(s, e) ==
    IF e # 0 /\ e <= Len(s) /\ s[e] = ":" THEN CellEnd(s, e + 1) ELSE 0
\* the rest of a pattern after the optional sheet prefix
RestEnd(s, i, ranges) == IF ranges THEN RangeEndAfter(s, CellEnd(s, i)) ELSE CellEnd(s, i)
\* (?:[^!\s]+!)? followed by the rest, n the length of the run of [^!\s]
\* at s[i]: the prefix is tried first
MatchEndAfter(s, i, n, ranges) ==
    IF n > 0 /\ i + n <= Len(s) /\ s[i + n] = "!" /\ RestEnd(s, i + n + 1, ranges) # 0
    THEN RestEnd(s, i + n + 1, ranges)
    ELSE RestEnd(s, i, ranges)
MatchEnd(s, i, ranges) == MatchEndAfter(s, i, NameRunLen(s, i), ranges)
\* re.findall from s[i] on: the matches left to right, without overlap
RECURSIVE FindAll(_, _, _)
FindAllAfter(s, i, e, ranges) ==
    IF e = 0 THEN FindAll(s, i + 1, ranges)
    ELSE <<SubSeq(s, i, e - 1)>> \o FindAll(s, e, ranges)
FindAll(s, i, ranges) ==
    IF i > Len(s) THEN <<>> ELSE FindAllAfter(s, i, MatchEnd(s, i, ranges), ranges)
\* Dependencies without the filter on the cell tokens
Dependencies_Unfiltered(range_refs, cell_refs) == range_refs \o cell_refs
\* the list called dependencies: the range tokens, then the cell tokens that
\* are part of no range token
Dependencies(range_refs, cell_refs) ==
    range_refs \o
    SelectSeq(cell_refs,
              LAMBDA cell_ref :
                  ~\E k \in 1..Len(range_refs) : Contains(range_refs[k], cell_ref))
\* list(set(list)): the elements once each, in an order the hashes decide
ListOfSet(list) ==
    {l \in [1..Cardinality({list[k] : k \in 1..Len(list)}) -> {list[k] : k \in 1..Len(list)}] :
        \A i, j \in DOMAIN l : i # j => l[i] # l[j]}
\* the lists _extract_dependencies may return
_extract_dependencies(text) ==
    ListOfSet(Dependencies(FindAll(text, 1, TRUE), FindAll(text, 1, FALSE)))

MaxDepPieces == 3   \* pieces of a text
DepPieces ==
    {<<"S", "U", "M", "(", "A", "1", ":", "A", "1", "0", ")">>, <<"+">>, <<"B", "1">>, <<"A", "1">>, <<"S", "h", "e", "e", "t", "1", "!", "A", "1">>, <<"S", "h", "e", "e", "t", "2", "!", "B", "2">>, <<" ">>, <<":">>, <<"a", "1">>, <<"A", "1", "0">>}
RECURSIVE Flatten(_)
Flatten(strs) == IF strs = <<>> THEN <<>> ELSE strs[1] \o Flatten(Tail(strs))
DepTexts == {Flatten(ps) : ps \in StringsOver(DepPieces, MaxDepPieces)}
InitDeps == InitFunction(DepTexts)
ExtractDependencies == \E deps \in _extract_dependencies(formula) : Returns(deps)
NextDeps == ExtractDependencies
SpecDeps == InitDeps /\ [][NextDeps]_vars

Elements(list) == {list[k] : k \in 1..Len(list)}
\* the position of the last ":" of a range token
LastColon(r) == CHOOSE k \in 1..Len(r) : r[k] = ":" /\ \A j \in (k + 1)..Len(r) : r[j] # ":"
\* the two cell tokens at the ends of a range token
Ends(r) == {SubSeq(r, 1, LastColon(r) - 1), SubSeq(r, LastColon(r) + 1, Len(r))}

\* C15: the dependencies hold no token twice, every range token of the text
\* is among them exactly once, the two cell tokens at the ends of a range
\* token are not among them, and the dependencies of "SUM(A1:A10)+B1" are
\* exactly "A1:A10" and "B1".
C15_RangesOnceEndsNotListed ==
    HasReturned =>
        /\ \A i, j \in DOMAIN returned.value : i # j => returned.value[i] # returned.value[j]
        /\ \A r \in Elements(FindAll(formula, 1, TRUE)) :
              Cardinality({i \in DOMAIN returned.value : returned.value[i] = r}) = 1
        /\ \A r \in Elements(FindAll(formula, 1, TRUE)) :
              Ends(r) \cap Elements(returned.value) = {}
        /\ formula = <<"S", "U", "M", "(", "A", "1", ":", "A", "1", "0", ")", "+", "B", "1">> =>
              (Len(returned.value) = 2 /\ Elements(returned.value) = {<<"A", "1", ":", "A", "1", "0">>, <<"B", "1">>})
C15_Witness ==
    /\ HasReturned
    /\ formula = <<"S", "U", "M", "(", "A", "1", ":", "A", "1", "0", ")", "+", "B", "1">>
    /\ returned.value = <<<<"A", "1", ":", "A", "1", "0">>, <<"B", "1">>>>

\* the sheet-qualified cell tokens of the pieces
SheetTokens == {<<"S", "h", "e", "e", "t", "1", "!", "A", "1">>, <<"S", "h", "e", "e", "t", "2", "!", "B", "2">>}
\* t stands in s at position i as a token of its own: no letter or digit
\* before it, no digit and no ":" after it
StandsAt(s, t, i) ==
    /\ OccursAt(s, t, i)
    /\ i > 1 => s[i - 1] \notin Letters \cup Digits
    /\ i + Len(t) <= Len(s) => s[i + Len(t)] \notin Digits \cup {":"}

\* C16 (as stated): every sheet-qualified cell token of the text is among
\* the dependencies exactly as SHEET!CELL, and the dependencies of
\* "Sheet1!A1+Sheet2!B2" contain "Sheet1!A1" and "Sheet2!B2".
C16_AsStated ==
    HasReturned =>
        /\ \A t \in SheetTokens :
              (\E i \in 1..Len(formula) : StandsAt(formula, t, i)) =>
                  t \in Elements(returned.value)
        /\ formula = <<"S", "h", "e", "e", "t", "1", "!", "A", "1", "+", "S", "h", "e", "e", "t", "2", "!", "B", "2">> =>
              {<<"S", "h", "e", "e", "t", "1", "!", "A", "1">>, <<"S", "h", "e", "e", "t", "2", "!", "B", "2">>} \subseteq Elements(returned.value)

\* the part of C16 the code keeps: a sheet-qualified cell token at the start
\* of the text or after a blank is among the dependencies as it stands
C16_AfterBlankOrStart ==
    HasReturned =>
        \A t \in SheetTokens :
            (\E i \in 1..Len(formula) :
                StandsAt(formula, t, i) /\ (i > 1 => formula[i - 1] = " ")) =>
                    t \in Elements(returned.value)

\* the "+" before Sheet2 is taken into the token
C16_OperatorAbsorbed ==
    /\ HasReturned
    /\ formula = <<"S", "h", "e", "e", "t", "1", "!", "A", "1", "+", "S", "h", "e", "e", "t", "2", "!", "B", "2">>
    /\ Elements(returned.value) = {<<"S", "h", "e", "e", "t", "1", "!", "A", "1">>, <<"+", "S", "h", "e", "e", "t", "2", "!", "B", "2">>}

(***************************************************************************)
(* Use of one FormulaProcessor (SpecUse): passes over UseGrids, with       *)
(* get_formula_info and get_formula_statistics called between them.        *)
(***************************************************************************)
\* self.formula_cache.get(f"{row}_{col}"); NoInfo stands for None
get_formula_info(cache, row, col) == Get(cache, FormulaKey(row, col), NoInfo)
\* the two dicts __init__ puts into self.stats; they are filled in place and
\* never replaced, their contents are stats.function_usage and stats.error_types
UsageObject == [object |-> "function_usage"]
ErrorsObject == [object |-> "error_types"]
\* self.stats.copy(): a new dict with the same values, so the three numbers
\* and the two dict objects themselves
get_formula_statistics(st) ==
    [total_formulas |-> st.total_formulas,
     calculated_formulas |-> st.calculated_formulas,
     error_formulas |-> st.error_formulas,
     function_usage |-> UsageObject,
     error_types |-> ErrorsObject]

\* cells of the grids of SpecUse: a number, a formula that fails and a
\* formula that calls a function
UsePool == {IntV(2), StrV(<<"=", "1", "+", "+", "2">>), StrV(<<"=", "S", "U", "M", "(", "A", "1", ":", "B", "1", ")">>)}
UseGrids == {data \in GridsOver(UsePool) : CellCount(data) <= MaxProcCells}
UsePositions == (0..(MaxRows - 1)) \X (0..(MaxCols - 1))

\* returned = processor.get_formula_info(row, col), asked after `at` passes
GetFormulaInfo(row, col) ==
    /\ returned' = [value |-> get_formula_info(formula_cache, row, col),
                    row |-> row, col |-> col, at |-> passes]
    /\ UNCHANGED <<sheet_data, formula, info, stats, formula_cache, path, calc_depth,
                   enhanced, passes, snapshot, sheet_keys, scan>>
\* snapshot = processor.get_formula_statistics(), taken after `at` passes
GetFormulaStatistics ==
    /\ snapshot' = [fields |-> get_formula_statistics(stats), at |-> passes]
    /\ UNCHANGED <<sheet_data, formula, info, stats, formula_cache, path, calc_depth,
                   enhanced, passes, returned, sheet_keys, scan>>
NextUse ==
    \/ \E data \in UseGrids : ProcessSheetFormulas(data)
    \/ \E rc \in UsePositions : GetFormulaInfo(rc[1], rc[2])
    \/ GetFormulaStatistics
SpecUse == Init /\ [][NextUse]_vars

\* what a dict object of the processor holds now
ObjectContents(o) == IF o = UsageObject THEN stats.function_usage ELSE stats.error_types
\* what a reader of the snapshot sees now
Reported ==
    [total_formulas |-> snapshot.fields.total_formulas,
     calculated_formulas |-> snapshot.fields.calculated_formulas,
     error_formulas |-> snapshot.fields.error_formulas,
     function_usage |-> ObjectContents(snapshot.fields.function_usage),
     error_types |-> ObjectContents(snapshot.fields.error_types)]
\* the snapshot was taken and no pass was made since
SnapshotIsLatest == snapshot # NoSnapshot /\ snapshot.at = passes

\* the entry counts as calculated / counts for a function name
CountsCalculated(fi) == fi.is_calculated /\ fi.error = NoError
CountsFunction(fi) == fi.formula_type = "FUNCTION" /\ CallStarts(fi.original_formula) # {}
FunctionOf(fi) == Upper(FirstCalledName(fi.original_formula))
\* the counts of the entries of one pass alone
PassCounts(formulas) ==
    [total_formulas |-> Cardinality(DOMAIN formulas),
     calculated_formulas |->
         Cardinality({k \in DOMAIN formulas : CountsCalculated(formulas[k])}),
     error_formulas |->
         Cardinality({k \in DOMAIN formulas : ~CountsCalculated(formulas[k])}),
     function_usage |->
         [f \in {FunctionOf(formulas[k]) : k \in {x \in DOMAIN formulas : CountsFunction(formulas[x])}} |->
             Cardinality({k \in DOMAIN formulas :
                             CountsFunction(formulas[k]) /\ FunctionOf(formulas[k]) = f})],
     error_types |->
         [e \in {formulas[k].error : k \in DOMAIN formulas} \ {NoError} |->
             Cardinality({k \in DOMAIN formulas : formulas[k].error = e})]]
AddDicts(d, c) == [k \in DOMAIN d \cup DOMAIN c |-> Get(d, k, 0) + Get(c, k, 0)]
AddCounts(a, b) ==
    [total_formulas |-> a.total_formulas + b.total_formulas,
     calculated_formulas |-> a.calculated_formulas + b.calculated_formulas,
     error_formulas |-> a.error_formulas + b.error_formulas,
     function_usage |-> AddDicts(a.function_usage, b.function_usage),
     error_types |-> AddDicts(a.error_types, b.error_types)]

\* C17 (as stated): statistics read after a pass are the counts of the grid
\* processed last alone: total, calculated, errored, per function, per error.
C17_AsStated ==
    (SnapshotIsLatest /\ passes > 0) => Reported = PassCounts(enhanced)

\* C17 (amended): the statistics are created with the processor and every
\* pass adds the counts of its grid to them; get_formula_statistics reports
\* these accumulated counts.
C17_AccumulatesOverPasses ==
    [][/\ passes' = passes + 1 => stats' = AddCounts(stats, PassCounts(enhanced'))
       /\ snapshot' # snapshot => Reported' = stats']_vars

\* after a pass with two formulas and a pass with one, three are reported
C17_Witness ==
    /\ SnapshotIsLatest
    /\ passes = 2
    /\ Cardinality(DOMAIN enhanced) = 1
    /\ Reported.total_formulas = 3
    /\ Reported.function_usage = (<<"S", "U", "M">> :> 2)

\* get_formula_info was called and no pass was made since
InfoIsLatest == returned # NoReturn /\ returned.at = passes

\* C18 (as stated): get_formula_info(row, col) returns the entry the last
\* pass stored for the cell when the cell of the grid processed last is a
\* formula, and None when it is not a formula cell of that grid.
C18_AsStated ==
    InfoIsLatest =>
        IF FormulaAt(returned.row, returned.col)
        THEN returned.value = enhanced[KeyOf(returned.row, returned.col)]
        ELSE returned.value = NoInfo

\* the part of C18 the code keeps: for a formula cell of the grid processed
\* last the entry of the last pass is returned, and before any pass None
C18_FormulaCellsAreLatest ==
    InfoIsLatest =>
        /\ FormulaAt(returned.row, returned.col) =>
              returned.value = enhanced[KeyOf(returned.row, returned.col)]
        /\ passes = 0 => returned.value = NoInfo

\* the second grid has a number at row 0, column 0, where the first had a
\* formula: the entry of the first pass is returned
C18_StaleEntry ==
    /\ InfoIsLatest
    /\ passes = 2
    /\ sheet_data = <<<<IntV(2)>>>>
    /\ returned.row = 0 /\ returned.col = 0
    /\ returned.value # NoInfo
    /\ returned.value.original_formula = <<"=", "1", "+", "+", "2">>

\* no counter of b is below the counter of a
DictNoLess(a, b) == \A k \in DOMAIN a : k \in DOMAIN b /\ a[k] <= b[k]
NoLess(a, b) ==
    /\ a.total_formulas <= b.total_formulas
    /\ a.calculated_formulas <= b.calculated_formulas
    /\ a.error_formulas <= b.error_formulas
    /\ DictNoLess(a.function_usage, b.function_usage)
    /\ DictNoLess(a.error_types, b.error_types)

\* C19: over process_sheet_formulas, get_formula_info and
\* get_formula_statistics no counter of the statistics ever decreases, and a
\* pass raises total_formulas by 1 for each formula cell of its grid (the
\* other two operations leave it as it is).
C19_CountersNeverDecrease ==
    [][/\ NoLess(stats, stats')
       /\ passes' = passes + 1 =>
             stats'.total_formulas = stats.total_formulas + Cardinality(FormulaPositions')
       /\ passes' = passes => stats'.total_formulas = stats.total_formulas]_vars

\* a second pass over a grid with one formula cell took the total from 2 to 3
\* and left the error counter of the first pass standing
C19_Witness ==
    /\ passes = 2
    /\ Cardinality(FormulaPositions) = 1
    /\ stats.total_formulas = 3
    /\ stats.error_formulas = 2
    /\ stats.calculated_formulas = 1
    /\ stats.error_types = ("VALUE_ERROR" :> 2)

(***************************************************************************)
(* A caller that writes into a snapshot (SpecSnap): passes,                *)
(* get_formula_statistics, and writes to the dict it returned.             *)
(***************************************************************************)
\* snapshot['total_formulas'] = 0: a key of the caller's own dict
SetSnapshotTotal ==
    /\ snapshot # NoSnapshot
    /\ snapshot' = [snapshot EXCEPT !.fields.total_formulas = 0]
    /\ UNCHANGED <<sheet_data, formula, info, stats, formula_cache, path, calc_depth,
                   enhanced, passes, returned, sheet_keys, scan>>
\* the contents of self.stats after o.clear() on the dict object o
Cleared(st, o) ==
    IF o = UsageObject THEN [st EXCEPT !.function_usage = EmptyDict]
    ELSE [st EXCEPT !.error_types = EmptyDict]
\* snapshot['function_usage'].clear(): the dict stored under the key is emptied
ClearSnapshotUsage ==
    /\ snapshot # NoSnapshot
    /\ stats' = Cleared(stats, snapshot.fields.function_usage)
    /\ UNCHANGED <<sheet_data, formula, info, formula_cache, path, calc_depth,
                   enhanced, passes, returned, snapshot, sheet_keys, scan>>
NextSnap ==
    \/ \E data \in UseGrids : ProcessSheetFormulas(data)
    \/ GetFormulaStatistics
    \/ SetSnapshotTotal
    \/ ClearSnapshotUsage
SpecSnap == Init /\ [][NextSnap]_vars

\* C20 (as stated): a pass changes nothing a reader sees in a snapshot taken
\* before it, function_usage and error_types included, and a step that is not
\* a pass (taking a snapshot, writing into one) changes nothing in the
\* processor's statistics.
C20_AsStated ==
    [][/\ (passes' = passes + 1 /\ snapshot # NoSnapshot) => Reported' = Reported
       /\ passes' = passes => stats' = stats]_vars

\* the part of C20 the code keeps: the three numbers of a snapshot are not
\* changed by a pass, and a write to a number of the snapshot, or taking a
\* snapshot, changes nothing in the processor
C20_NumbersAreCopied ==
    [][/\ (passes' = passes + 1 /\ snapshot # NoSnapshot) =>
             /\ Reported'.total_formulas = Reported.total_formulas
             /\ Reported'.calculated_formulas = Reported.calculated_formulas
             /\ Reported'.error_formulas = Reported.error_formulas
       /\ (passes' = passes /\ stats'.function_usage = stats.function_usage) =>
             stats' = stats]_vars

\* a snapshot taken before the only pass shows the function usage of that pass
C20_SnapshotFollowsPass ==
    /\ snapshot # NoSnapshot
    /\ snapshot.at = 0
    /\ passes = 1
    /\ Reported.total_formulas = 0
    /\ Reported.function_usage = (<<"S", "U", "M">> :> 1)
\* the caller emptied function_usage of a snapshot: the processor, which
\* counted a function formula, has lost the count
C20_ProcessorLosesUsage ==
    /\ snapshot # NoSnapshot
    /\ passes = 1
    /\ sheet_data = <<<<IntV(2)>>, <<StrV(<<"=", "S", "U", "M", "(", "A", "1", ":", "B", "1", ")">>)>>>>
    /\ stats.total_formulas = 1
    /\ enhanced[<<"1", "_", "0">>].formula_type = "FUNCTION"
    /\ stats.function_usage = EmptyDict

(***************************************************************************)
(* The caller's grid (SpecFrame): a caller holds a mapping with a grid,    *)
(* has one formula calculated on it and passes it to a processor.          *)
(***************************************************************************)
FrameTexts == {<<"A", "1", "+", "1">>, <<"S", "U", "M", "(", "A", "1", ":", "B", "1", ")">>, <<"B", "1">>, <<"1", "/", "0">>}
InitFrame == InitCalc(UseGrids, FrameTexts)
NextFrame ==
    \/ CalculateFormula
    \/ ProcessSheetFormulas(sheet_data)
SpecFrame == InitFrame /\ [][NextFrame]_vars

\* C21: calculate_formula and process_sheet_formulas leave every cell and
\* every row of the caller's grid as it was, and the caller's mapping gains
\* no key: 'formulas' is in the returned copy only.
C21_GridIsOnlyRead ==
    [][sheet_data' = sheet_data /\ sheet_keys' = sheet_keys]_vars

\* after a calculation and a pass on a grid with a formula cell the entry is
\* in the returned mapping and the caller's mapping has its one key
C21_Witness ==
    /\ passes = 1
    /\ Calculated
    /\ sheet_data = <<<<IntV(2)>>, <<StrV(<<"=", "S", "U", "M", "(", "A", "1", ":", "B", "1", ")">>)>>>>
    /\ DOMAIN enhanced = {<<"1", "_", "0">>}
    /\ sheet_keys = {"data"}
    /\ scan = NoScan

(***************************************************************************)
(* Counters (SpecCount): passes over grids whose formulas call known and   *)
(* unknown functions, IF, and fail.                                        *)
(***************************************************************************)
CountPool ==
    {IntV(2), StrV(<<"=", "S", "U", "M", "(", "1", ",", "2", ")">>), StrV(<<"=", "s", "u", "m", "(", "A", "1", ")">>), StrV(<<"=", "I", "F", "(", "1", ",", "2", ",", "3", ")">>), StrV(<<"=", "F", "O", "O", "(", "1", ")">>),
     StrV(<<"=", "1", "/", "0">>)}
CountGrids == {data \in GridsOver(CountPool) : CellCount(data) <= MaxProcCells}
NextCount == \E data \in CountGrids : ProcessSheetFormulas(data)
SpecCount == Init /\ [][NextCount]_vars

\* the entries of the last pass with error e / classified FunctionCall with
\* the leading function f
EntriesWithError(e) == {k \in DOMAIN enhanced : enhanced[k].error = e}
EntriesCalling(f) ==
    {k \in DOMAIN enhanced :
        /\ enhanced[k].formula_type = "FUNCTION"
        /\ CallStarts(enhanced[k].original_formula) # {}
        /\ Upper(FirstCalledName(enhanced[k].original_formula)) = f}
RECURSIVE DictSum(_)
DictSum(d) ==
    IF DOMAIN d = {} THEN 0
    ELSE d[CHOOSE k \in DOMAIN d : TRUE]
         + DictSum([x \in DOMAIN d \ {CHOOSE k \in DOMAIN d : TRUE} |-> d[x]])

\* C22: after the first pass of a new processor error_types[k] is the number
\* of entries with error k, these sum to error_formulas, function_usage[f]
\* is the number of FunctionCall entries whose leading function is f, and no
\* other counter exists (an IF formula, classified Conditional, counts for
\* no function).
C22_CountersAgreeWithEntries ==
    passes = 1 =>
        /\ \A e \in DOMAIN stats.error_types \cup {enhanced[k].error : k \in DOMAIN enhanced} :
              e # NoError => Get(stats.error_types, e, 0) = Cardinality(EntriesWithError(e))
        /\ NoError \notin DOMAIN stats.error_types
        /\ DictSum(stats.error_types) = stats.error_formulas
        /\ \A f \in DOMAIN stats.function_usage \cup {<<"S", "U", "M">>, <<"F", "O", "O">>, <<"I", "F">>} :
              Get(stats.function_usage, f, 0) = Cardinality(EntriesCalling(f))
        /\ \A f \in DOMAIN stats.function_usage : stats.function_usage[f] > 0

C22_Witness ==
    /\ passes = 1
    /\ sheet_data = <<<<StrV(<<"=", "I", "F", "(", "1", ",", "2", ",", "3", ")">>), StrV(<<"=", "F", "O", "O", "(", "1", ")">>)>>>>
    /\ stats.function_usage = (<<"F", "O", "O">> :> 1)
    /\ stats.error_types = ("NAME_ERROR" :> 1)
    /\ stats.error_formulas = 1

(***************************************************************************)
(* Complex formulas (SpecSubst): arithmetic over cell tokens               *)
(***************************************************************************)
SubstPool == {IntV(2), IntV(0), StrV(<<"x">>)}
SubstTexts ==
    {<<"A", "1", "+", "1">>, <<"A", "1", "/", "0">>, <<"A", "1", "/", "B", "1">>, <<"A", "1", "%", "B", "1">>, <<"A", "1", "*", "B", "1">>, <<"A", "1", "^", "2">>, <<"A", "1", "+", "+", "1">>, <<"A", "1", "+">>, <<"A", "1", " ", "B", "1">>, <<"(", "A", "1", "+", "B", "1", ")", "*", "C", "1">>,
     <<"A", "1", "+", "B", "2">>, <<"a", "1", "-", "B", "1">>}
InitSubst == InitCalc(CalcGridsOver(SubstPool), SubstTexts)
SpecSubst == InitSubst /\ [][NextCalc]_vars

\* the outcome of the simple-math rule for text t, ValueError for a text
\* that is no arithmetic text
AsSimpleMath(t) ==
    IF ~IsSimpleMath(t) \/ SyntaxCheckFails(t) THEN ErrorResult("VALUE_ERROR")
    ELSE SimpleMathResult(PyCompileEval(ReplaceCaret(t)))
\* the text with every cell token replaced by the cell's number, or by 0
Substituted == SubstituteFrom(Clean, 1, sheet_data)
IsComplex == Calculated /\ path = "complex"
SameOutcome(r) == info.calculated_value = r.value /\ info.error = r.error

\* C23 (as stated): a Complex formula has the outcome the simple-math rule
\* gives for the substituted text: the same value, DivZero when it divides
\* by zero, ValueError when it is malformed.
C23_AsStated == IsComplex => SameOutcome(AsSimpleMath(Substituted))

\* the part of C23 the code keeps: when the simple-math rule gives the
\* substituted text a value, the Complex formula has that value, and when
\* Python rejects the substituted text, the outcome is ValueError
C23_ValuesAgree ==
    IsComplex =>
        /\ AsSimpleMath(Substituted).error = NoError => SameOutcome(AsSimpleMath(Substituted))
        /\ info.error \in {NoError, "VALUE_ERROR"}

\* A1/0 with A1 = 2: the substituted text 2/0 divides by zero, the entry is
\* a ValueError
C23_DivisionByZeroIsValueError ==
    /\ IsComplex
    /\ sheet_data = <<<<IntV(2)>>>>
    /\ Clean = <<"A", "1", "/", "0">>
    /\ Substituted = <<"2", "/", "0">>
    /\ AsSimpleMath(Substituted).error = "DIV_ZERO"
    /\ info.error = "VALUE_ERROR"

(***************************************************************************)
(* The depth counter (SpecDepth): _resolve_range_reference entered with    *)
(* the attribute unset (a new calculator) or at a depth from 0 to one      *)
(* above the limit (a call made while formula cells are being evaluated).  *)
(***************************************************************************)
DepthPool == {IntV(2), StrV(<<"x">>), StrV(<<"=", "A", "1", "+", "1">>)}
DepthRefs == {<<"A", "1", ":", "B", "2">>, <<"A", "1", ":", "A", "1">>, <<"B", "1", ":", "C", "2">>}
Depths == {Unset} \cup (0..(RecursionLimit + 1))
InitDepth ==
    /\ sheet_data \in CalcGridsOver(DepthPool)
    /\ formula \in DepthRefs
    /\ info = NoInfo
    /\ path = "none"
    /\ calc_depth \in Depths
    /\ stats = NewStats
    /\ formula_cache = EmptyDict
    /\ enhanced = NoPass
    /\ passes = 0
    /\ returned = NoReturn
    /\ snapshot = NoSnapshot
    /\ sheet_keys = {"data"}
    /\ scan = NoScan
\* the list returned and the counter after the call ended as out
RangeReturned(out) ==
    /\ returned' = [value |-> out.values]
    /\ calc_depth' = out.depth
\* returned = calculator._resolve_range_reference(formula)
ResolveRangeReference ==
    /\ returned = NoReturn
    /\ RangeReturned(_resolve_range_reference(formula, sheet_data, calc_depth))
    /\ UNCHANGED <<sheet_data, formula, info, stats, formula_cache, path, enhanced, passes,
                   snapshot, sheet_keys, scan>>
NextDepth == ResolveRangeReference
SpecDepth == InitDepth /\ [][NextDepth]_vars

\* the values of the range on a calculator whose counter is 0
FullValues == _resolve_range_reference(formula, sheet_data, 0).values

SeqPool == {IntV(2), StrV(<<"=", "A", "1", "+", "1">>), StrV(<<"=", "1", "/", "0">>)}
SeqTexts == {<<"S", "U", "M", "(", "A", "1", ":", "B", "1", ")">>, <<"C", "O", "U", "N", "T", "(", "A", "1", ":", "B", "2", ")">>, <<"A", "1", "+", "B", "1">>, <<"B", "1">>}
InitSeq == InitCalc(CalcGridsOver(SeqPool), SeqTexts)
\* info = calculator.calculate_formula(text), on the calculator in use
CalculateAnother(text) ==
    /\ formula' = text
    /\ Returned(calculate_formula(text, sheet_data, calc_depth))
    /\ UNCHANGED <<sheet_data, stats, formula_cache, enhanced, passes, returned, snapshot,
                   sheet_keys, scan>>
NextSeq == \E text \in SeqTexts : CalculateAnother(text)
SpecSeq == InitSeq /\ [][NextSeq]_vars

\* C25: between calculate_formula calls the depth counter of a calculator is
\* 0 (or not yet created, which _resolve_range_reference reads as 0): every
\* increment was undone, whether the formula cell evaluated or failed, so
\* the next formula has the whole budget whatever was calculated before.
C25_DepthIsZeroBetweenFormulas == DepthOf(calc_depth) = 0

\* the counter exists, so a range was resolved earlier on this calculator,
\* over a formula cell that evaluates and one that fails; the formula
\* calculated last resolves no range
C25_Witness ==
    /\ Calculated
    /\ formula = <<"A", "1", "+", "B", "1">>
    /\ sheet_data = <<<<StrV(<<"=", "A", "1", "+", "1">>), StrV(<<"=", "1", "/", "0">>)>>>>
    /\ calc_depth = 0

(***************************************************************************)
(* Specification SpecScan: one pass of process_sheet_formulas followed     *)
(* call by call.  scan.cursor counts the cells of the scan loop that are   *)
(* done; scan.stack holds the evaluations in progress, innermost last: the *)
(* calculate_formula call of the scan loop (kind "formula") and, inside    *)
(* it, the substitution and eval of a formula cell met in a range (kind    *)
(* "range_cell").  A frame's left lists the formula cells its evaluation   *)
(* has still to evaluate.                                                  *)
(***************************************************************************)
MaxStack == 4       \* evaluations in progress at one time
CyclePool ==
    {IntV(2),
     StrV(<<"=", "A", "1">>), StrV(<<"=", "B", "1", "+", "1">>), StrV(<<"=", "A", "1", "+", "B", "1">>),
     StrV(<<"=", "S", "U", "M", "(", "A", "1", ":", "B", "1", ")">>), StrV(<<"=", "S", "U", "M", "(", "A", "1", ":", "B", "2", ",", "B", "1", ")">>)}
CycleGrids == {data \in GridsOver(CyclePool) : CellCount(data) <= MaxCalcCells}

CellAt(data, rc) == data[rc[1] + 1][rc[2] + 1]
Frame(kind, cell, left) == [kind |-> kind, cell |-> cell, left |-> left]
Top == scan.stack[Len(scan.stack)]
Scanning == scan # NoScan /\ ~scan.done
Current == AllCells(sheet_data, 0)[scan.cursor + 1]

\* the loop of _parse_function_args without _evaluate_arg: the stripped
\* texts of the arguments, split at the commas outside parentheses
SplitStep(st, ch) ==
    [texts |-> st.texts, current_arg |-> Append(st.current_arg, ch),
     paren_level |-> IF ch = "(" THEN st.paren_level + 1
                     ELSE IF ch = ")" THEN st.paren_level - 1 ELSE st.paren_level]
RECURSIVE SplitArgs(_, _, _)
SplitArgs(args_str, i, st) ==
    IF i > Len(args_str) THEN st
    ELSE IF args_str[i] = "," /\ st.paren_level = 0
    THEN SplitArgs(args_str, i + 1,
                   [texts |-> Append(st.texts, Strip(st.current_arg)),
                    current_arg |-> <<>>, paren_level |-> 0])
    ELSE SplitArgs(args_str, i + 1, SplitStep(st, args_str[i]))
LastText(st) ==
    IF Strip(st.current_arg) # <<>> THEN Append(st.texts, Strip(st.current_arg))
    ELSE st.texts
ArgumentTexts(args_str) ==
    IF Strip(args_str) = <<>> THEN <<>>
    ELSE LastText(SplitArgs(args_str, 1,
                            [texts |-> <<>>, current_arg |-> <<>>, paren_level |-> 0]))

\* the arguments _evaluate_arg hands to _resolve_range_reference
IsRangeArg(arg) ==
    /\ arg # <<>>
    /\ ~(StartsWith(arg, <<"\"">>) /\ EndsWith(arg, <<"\"">>))
    /\ ParseNumber(arg).k # "val"
    /\ ~IsCellToken(arg)
    /\ Contains(arg, <<":">>)

\* the formula cells the loops of _resolve_range_reference(ref) meet
FormulaCellsOf(r, data) ==
    IF r.start_row = -1 THEN <<>>
    ELSE SelectSeq(RangeCells(data, r.start_row, Min(r.end_row + 1, Len(data)),
                              r.start_col, r.end_col),
                   LAMBDA rc : is_formula_cell(CellAt(data, rc)))
RECURSIVE FormulaCellsOfArgs(_, _)
FormulaCellsOfArgs(texts, data) ==
    IF texts = <<>> THEN <<>>
    ELSE (IF IsRangeArg(texts[1])
          THEN FormulaCellsOf(parse_range_reference(texts[1]), data) ELSE <<>>)
         \o FormulaCellsOfArgs(Tail(texts), data)

\* the texts _evaluate_formula hands to _evaluate_function
ReachesFunction(text) ==
    /\ Upper(text) \notin ErrorTexts
    /\ ~IsSimpleMath(text)
    /\ ~IsCellToken(text)
    /\ HasFunctionCall(text)
CalledArgs(m) ==
    IF m.ok /\ Upper(m.name) \in SupportedFunctions THEN ArgumentTexts(m.args_str) ELSE <<>>
\* the formula cells calculate_formula(text) has evaluated by the time it
\* returns: those of the ranges among the arguments of a supported function;
\* cell references are read by _resolve_cell_reference, which returns the
\* cell's value as it stands
RangeFormulaCells(text, data) ==
    IF ReachesFunction(text) THEN FormulaCellsOfArgs(CalledArgs(MatchFunction(text)), data)
    ELSE <<>>

\* variant: the formula cells a formula cell of a range refers to are
\* evaluated in turn
SubEvaluations_Descending(text, data) ==
    SelectSeq(AllCells(data, 0),
              LAMBDA rc : /\ is_formula_cell(CellAt(data, rc))
                          /\ Contains(Upper(text),
                                      ColumnLetters(rc[2] + 1) \o NatStr(rc[1] + 1)))
\* the evaluations the try block of _resolve_range_reference starts for a
\* formula cell: _substitute_references replaces each cell token by the
\* value _resolve_cell_reference returns, the cell's content as it stands,
\* and eval sees none of the calculator's methods
SubEvaluations(text, data) == <<>>

InitScan ==
    /\ sheet_data \in CycleGrids
    /\ formula = NoFormula
    /\ info = NoInfo
    /\ path = "none"
    /\ calc_depth = Unset
    /\ stats = NewStats
    /\ formula_cache = EmptyDict
    /\ enhanced = NoPass
    /\ passes = 0
    /\ returned = NoReturn
    /\ snapshot = NoSnapshot
    /\ sheet_keys = {"data"}
    /\ scan = NoScan

\* enhanced_data['formulas'] = {}; calculator = FormulaCalculator(sheet_data)
BeginPass ==
    /\ scan = NoScan
    /\ scan' = [cursor |-> 0, stack |-> <<>>, done |-> FALSE]
    /\ enhanced' = EmptyDict
    /\ UNCHANGED <<sheet_data, formula, info, stats, formula_cache, path, calc_depth,
                   passes, returned, snapshot, sheet_keys>>

\* the scan loop passes a cell that holds no formula
SkipCell ==
    /\ Scanning
    /\ scan.stack = <<>>
    /\ scan.cursor < CellCount(sheet_data)
    /\ ~is_formula_cell(CellAt(sheet_data, Current))
    /\ scan' = [cursor |-> scan.cursor + 1, stack |-> <<>>, done |-> FALSE]
    /\ UNCHANGED <<sheet_data, formula, info, stats, formula_cache, path, calc_depth,
                   enhanced, passes, returned, snapshot, sheet_keys>>

\* the scan loop calls calculator.calculate_formula(cell_value, row_idx, col_idx)
AtFormulaCell ==
    /\ Scanning
    /\ scan.stack = <<>>
    /\ scan.cursor < CellCount(sheet_data)
    /\ is_formula_cell(CellAt(sheet_data, Current))
EnterFormula ==
    /\ AtFormulaCell
    /\ formula' = CellAt(sheet_data, Current).s
    /\ \E left \in {RangeFormulaCells(CleanFormula(CellAt(sheet_data, Current).s), sheet_data)} :
          scan' = [cursor |-> scan.cursor, done |-> FALSE,
                   stack |-> <<Frame("formula", Current, left)>>]
    /\ UNCHANGED <<sheet_data, info, stats, formula_cache, path, calc_depth,
                   enhanced, passes, returned, snapshot, sheet_keys>>

Pushed(stack, top, frame) ==
    Append(SubSeq(stack, 1, Len(stack) - 1), Frame(top.kind, top.cell, Tail(top.left)))
    \o <<frame>>
\* the evaluation in progress comes to a formula cell it has to evaluate
AtRangeCell ==
    /\ Scanning
    /\ scan.stack # <<>>
    /\ Len(scan.stack) < MaxStack
    /\ Top.left # <<>>
EnterRangeCell ==
    /\ AtRangeCell
    /\ \E left \in {SubEvaluations(Tail(CellAt(sheet_data, Head(Top.left)).s), sheet_data)} :
          scan' = [cursor |-> scan.cursor, done |-> FALSE,
                   stack |-> Pushed(scan.stack, Top, Frame("range_cell", Head(Top.left), left))]
    /\ UNCHANGED <<sheet_data, formula, info, stats, formula_cache, path, calc_depth,
                   enhanced, passes, returned, snapshot, sheet_keys>>

\* eval of the substituted text returned or raised; the loop goes on
LeaveRangeCell ==
    /\ Scanning
    /\ scan.stack # <<>>
    /\ Top.kind = "range_cell"
    /\ Top.left = <<>>
    /\ scan' = [cursor |-> scan.cursor, done |-> FALSE,
                stack |-> SubSeq(scan.stack, 1, Len(scan.stack) - 1)]
    /\ UNCHANGED <<sheet_data, formula, info, stats, formula_cache, path, calc_depth,
                   enhanced, passes, returned, snapshot, sheet_keys>>

\* the statements of the scan loop after calculate_formula returned c
FormulaDone(c, out) ==
    /\ info' = c.info
    /\ path' = c.path
    /\ enhanced' = out.formulas
    /\ stats' = out.stats
    /\ formula_cache' = out.cache
    /\ calc_depth' = out.depth
FormulaReturned(c) ==
    \E out \in {StoreFormula([formulas |-> enhanced, stats |-> stats,
                              cache |-> formula_cache, depth |-> calc_depth],
                             FormulaKey(Top.cell[1], Top.cell[2]), c)} :
        FormulaDone(c, out)
\* calculate_formula returns and the scan loop goes on to the next cell
Returning ==
    /\ Scanning
    /\ scan.stack # <<>>
    /\ Top.kind = "formula"
    /\ Top.left = <<>>
    /\ scan' = [cursor |-> scan.cursor + 1, done |-> FALSE,
                stack |-> SubSeq(scan.stack, 1, Len(scan.stack) - 1)]
\* calculate_formula returns to the scan loop
LeaveFormula ==
    /\ Returning
    /\ \E c \in {calculate_formula(formula, sheet_data, calc_depth)} : FormulaReturned(c)
    /\ UNCHANGED <<sheet_data, formula, passes, returned, snapshot, sheet_keys>>

\* the scan loop is over: return enhanced_data
FinishPass ==
    /\ Scanning
    /\ scan.stack = <<>>
    /\ scan.cursor = CellCount(sheet_data)
    /\ scan' = [cursor |-> scan.cursor, stack |-> <<>>, done |-> TRUE]
    /\ passes' = passes + 1
    /\ UNCHANGED <<sheet_data, formula, info, stats, formula_cache, path, calc_depth,
                   enhanced, returned, snapshot, sheet_keys>>

NextScan ==
    \/ BeginPass
    \/ SkipCell
    \/ EnterFormula
    \/ EnterRangeCell
    \/ LeaveRangeCell
    \/ LeaveFormula
    \/ FinishPass
\* the interpreter runs the pass without interruption: a step that can be
\* taken is taken.  For the two entering steps weak fairness is written out,
\*   WF_scan(A) == []<>(~ENABLED <<A>>_scan) \/ []<><<A>>_scan,
\* with their guards AtFormulaCell and AtRangeCell for ENABLED
ScanRuns ==
    /\ WF_vars(BeginPass)
    /\ WF_vars(SkipCell)
    /\ WF_vars(LeaveRangeCell)
    /\ WF_scan(Returning)
    /\ WF_vars(FinishPass)
    /\ []<>(~(AtFormulaCell \/ AtRangeCell)) \/ []<><<EnterFormula \/ EnterRangeCell>>_scan
SpecScan == InitScan /\ [][NextScan]_vars /\ ScanRuns

PassOver == scan # NoScan /\ scan.done
\* the evaluations in progress: at most one calculate_formula call, and
\* inside it at most one formula cell of a range, which starts no evaluation
NoFurtherDescent ==
    Scanning =>
        /\ Len(scan.stack) <= 2
        /\ \A i \in 1..Len(scan.stack) :
              scan.stack[i].kind = (IF i = 1 THEN "formula" ELSE "range_cell")
        /\ \A i \in 2..Len(scan.stack) : scan.stack[i].left = <<>>
\* the pass followed call by call ends with what process_sheet_formulas gives
WholePass(out) ==
    /\ enhanced = out.formulas
    /\ stats = out.stats
    /\ formula_cache = out.cache
ScanAgreesWithPass ==
    PassOver => WholePass(process_sheet_formulas(sheet_data, NewStats, EmptyDict))

C26_InsideRange ==
    /\ Scanning
    /\ Len(scan.stack) = 2
    /\ CellAt(sheet_data, scan.stack[1].cell) = StrV(<<"=", "S", "U", "M", "(", "A", "1", ":", "B", "1", ")">>)
    /\ scan.stack[2].cell = scan.stack[1].cell

(***************************************************************************)
(* Specification SpecHist: one FormulaCalculator asked for formulas that   *)
(* refer to formula cells, one after the other.                            *)
(***************************************************************************)
HistPool == {IntV(2), StrV(<<"=", "1", "+", "1">>), StrV(<<"=", "A", "1", "*", "2">>)}
HistTexts == {<<"A", "1", "+", "B", "1">>, <<"B", "1">>, <<"S", "U", "M", "(", "A", "1", ":", "B", "1", ")">>, <<"S", "U", "M", "(", "A", "1", ",", "B", "1", ")">>, <<"B", "1", "*", "A", "2">>}
InitHist == InitCalc(CalcGridsOver(HistPool), HistTexts)
NextHist == \E text \in HistTexts : CalculateAnother(text)
SpecHist == InitHist /\ [][NextHist]_vars

\* the grid with 0 in the place of every formula
FormulasAsZero(data) ==
    [r \in DOMAIN data |->
        [c \in DOMAIN data[r] |-> IF is_formula_cell(data[r][c]) THEN IntV(0) ELSE data[r][c]]]
SameEntry(c) == info = c.info
SameValue(c) == info.calculated_value = c.info.calculated_value /\ info.error = c.info.error
\* the referenced cell of a text that is one cell token, when it is in the grid
ReadsCell(c) ==
    /\ c.row >= 0 /\ c.row < Len(sheet_data)
    /\ c.col >= 0 /\ c.col < Len(sheet_data[c.row + 1])
ReadsFormula(c) == ReadsCell(c) /\ is_formula_cell(sheet_data[c.row + 1][c.col + 1])
ValueIsTextOf(c) == info.calculated_value = sheet_data[c.row + 1][c.col + 1]
\* the referenced formula cell's text is the value when the formula is one
\* cell token
ReferenceGivesText(c) == ReadsFormula(c) => ValueIsTextOf(c)

CallPool == {IntV(1), IntV(3)}
CallTexts ==
    {<<"S", "U", "M", "(", "1", ",", "2", ")">>, <<"S", "U", "M", "(", "1", ",", "2", ")", "+", "5">>, <<"S", "U", "M", "(", "A", "1", ":", "A", "1", "0", ")", "+", "B", "1">>, <<"S", "U", "M", "(", "1", ",", "2", ")", "*", "S", "U", "M", "(", "3", ",", "4", ")">>, <<"S", "U", "M", "(", "1", ",", "2", ")", "+">>,
     <<"S", "U", "M", "(", "1", ",", "2", ")", "+", "(", "5", ")">>, <<"A", "B", "S", "(", "1", ")", "+", "A", "B", "S", "(", "2", ")">>, <<"F", "O", "O", "(", "1", ")", "+", "5">>,
     <<"1", "+", "S", "U", "M", "(", "2", ",", "3", ")">>, <<"2", "*", "A", "B", "S", "(", "3", ")">>, <<"-", "S", "U", "M", "(", "1", ",", "2", ")">>, <<"(", "S", "U", "M", "(", "1", ",", "2", ")", ")">>, <<"1", "+", "F", "O", "O", "(", "2", ")">>, <<"A", "1", "+", "S", "U", "M", "(", "2", ",", "3", ")">>}
InitCall == InitCalc(CalcGridsOver(CallPool), CallTexts)
SpecCall == InitCall /\ [][NextCalc]_vars

\* the position of the ")" that closes the first "(" of the text, 0 if none
RECURSIVE CloseOf(_, _, _)
CloseOf(text, i, level) ==
    IF i > Len(text) THEN 0
    ELSE IF text[i] = "(" THEN CloseOf(text, i + 1, level + 1)
    ELSE IF text[i] = ")"
    THEN IF level = 1 THEN i ELSE CloseOf(text, i + 1, level - 1)
    ELSE CloseOf(text, i + 1, level)
\* the text starts with a name and "(": it has a leading function call
HasLeadingCall(text) ==
    /\ RunLen(text, 1, Letters) > 0
    /\ CharAt(text, RunLen(text, 1, Letters) + 1) = "("
    /\ CloseOf(text, 1, 0) > 0
LeadingCall(text) == SubSeq(text, 1, CloseOf(text, 1, 0))
HasTrailingText(text) == HasLeadingCall(text) /\ CloseOf(text, 1, 0) < Len(text)
\* the entry is the value of the call c alone, with error None
IsValueOf(c) ==
    /\ info.error = NoError
    /\ c.info.error = NoError
    /\ info.calculated_value = c.info.calculated_value

\* C28 (as stated): when text follows the closing parenthesis of the leading
\* function call, the result is never the value of the leading call alone
\* with error None.
C28_AsStated ==
    (Calculated /\ HasTrailingText(Clean)) =>
        ~IsValueOf(calculate_formula(LeadingCall(Clean), sheet_data, Unset))
\* SUM(1,2)+5 is 3 with error None: the text after the call is dropped
C28_TrailingTextDropped ==
    /\ Calculated
    /\ formula = <<"S", "U", "M", "(", "1", ",", "2", ")", "+", "5">>
    /\ info.calculated_value = IntV(3)
    /\ info.error = NoError

\* the names of the functions a text calls: the runs of letters that stand
\* before a "("
CalledNames(text) ==
    {Upper(SubSeq(text, i, i + RunLen(text, i, Letters) - 1)) :
        i \in {j \in CallStarts(text) : j = 1 \/ text[j - 1] \notin Letters}}

\* C29 (as stated): NameError is returned only for a formula that calls a
\* function whose name is not in the function table.
C29_AsStated ==
    (Calculated /\ info.error = "NAME_ERROR") =>
        \E name \in CalledNames(Clean) : name \notin SupportedFunctions
\* 1+SUM(2,3) calls SUM alone and is a NameError
C29_CallAfterTextIsNameError ==
    /\ Calculated
    /\ formula = <<"1", "+", "S", "U", "M", "(", "2", ",", "3", ")">>
    /\ CalledNames(Clean) = {<<"S", "U", "M">>}
    /\ info.error = "NAME_ERROR"
    /\ info.calculated_value = StrV(<<"#", "N", "A", "M", "E", "?">>)
\* a text that starts with a call of a function of the table is no NameError
C29_LeadingCallIsFound ==
    (Calculated /\ HasLeadingCall(Clean) /\ CalledNames(Clean) \subseteq SupportedFunctions) =>
        info.error # "NAME_ERROR"

(***************************************************************************)
(* Specification SpecDrop: _extract_dependencies on texts in which cell    *)
(* tokens stand beside a range token.                                      *)
(***************************************************************************)
DropRanges == {<<"A", "1", "0", ":", "B", "2", "0">>, <<"A", "1", ":", "B", "5">>, <<"A", "B", "1", ":", "C", "2">>}
DropCells == {<<"A", "1">>, <<"B", "2">>, <<"B", "1">>, <<"C", "1">>, <<"A", "1", "0">>}
DropTexts ==
    {<<"S", "U", "M", "(">> \o r \o <<")", "+">> \o c : r \in DropRanges, c \in DropCells}
    \cup {c \o <<"+", "S", "U", "M", "(">> \o r \o <<")">> : r \in DropRanges, c \in DropCells}
    \cup {<<"S", "U", "M", "(">> \o r \o <<")", "+">> \o c \o <<"*">> \o d : r \in DropRanges, c \in DropCells, d \in DropCells}
InitDrop == InitFunction(DropTexts)
SpecDrop == InitDrop /\ [][NextDeps]_vars

\* the bare cell tokens of s from s[i] on that are part of no range token;
\* ce and re are the ends of a cell token and of a range token at s[i]
RECURSIVE CellsOutsideRanges(_, _)
OutsideAfter(s, i, ce, re) ==
    IF re # 0 THEN CellsOutsideRanges(s, re)
    ELSE IF ce # 0 THEN {SubSeq(s, i, ce - 1)} \cup CellsOutsideRanges(s, ce)
    ELSE CellsOutsideRanges(s, i + 1)
CellsOutsideRanges(s, i) ==
    IF i > Len(s) THEN {}
    ELSE OutsideAfter(s, i, CellEnd(s, i), RangeEndAfter(s, CellEnd(s, i)))

\* C30 (as stated): every bare cell token that stands in the text outside of
\* any range token is an element of the dependencies, also when it is a
\* substring of a range token of the text.
C30_AsStated ==
    HasReturned => CellsOutsideRanges(formula, 1) \subseteq Elements(returned.value)
\* the cell tokens outside the range tokens that no range token contains as
\* a substring are elements of the dependencies
C30_KeptUnlessSubstring ==
    HasReturned =>
        \A c \in CellsOutsideRanges(formula, 1) :
            (\A r \in Elements(FindAll(formula, 1, TRUE)) : ~Contains(r, c)) =>
                c \in Elements(returned.value)
\* A1 of SUM(A10:B20)+A1 is dropped
C30_SubstringDropped ==
    /\ HasReturned
    /\ formula = <<"S", "U", "M", "(", "A", "1", "0", ":", "B", "2", "0", ")", "+", "A", "1">>
    /\ CellsOutsideRanges(formula, 1) = {<<"A", "1">>}
    /\ returned.value = <<<<"A", "1", "0", ":", "B", "2", "0">>>>

====
